---- MODULE Spec2Model ----
(***************************************************************************)
(* Cosmos server: the asynchronous chunk lifecycle of a planet.            *)
(*                                                                         *)
(* The model follows the systems registered for GameState::Playing:        *)
(*   generate_chunks_near_players -> get_requested_chunk -> bounce_events  *)
(*   (chained), check_needs_generated_system, generate_planet and          *)
(*   notify_when_done_generating (unordered).  Every system runs once per  *)
(*   tick; Commands are applied when the tick ends; events written by one  *)
(*   system are read by their single reader the next time it runs.         *)
(***************************************************************************)
EXTENDS Integers, Sequences, FiniteSets, TLC

VARIABLES
    structures,         \* [planet entity -> Structure]   (entities that exist)
    chunk_states,       \* [planet entity -> Seq(ChunkState)], by flattened index
    players,            \* Seq of observers: the chunk each one stands in
    needs_generated,    \* Seq of live NeedsGenerated flag entities
    commands,           \* Commands queued in this tick: [spawn, despawn]
    generate_events,    \* Events<T: TGenerateChunkEvent> not yet read
    generating,         \* GeneratingChunks.generating (Vec<GeneratingChunk>)
    request_events,     \* Events<RequestChunkEvent> not yet read
    bouncer_events,     \* Events<RequestChunkBouncer> not yet read
    sent_messages,      \* the ChunkData messages handed to the RenetServer
    chunk_init_events,  \* every ChunkInitEvent written so far
    ran,                \* the systems that have run in the current tick
    client_requests,    \* every RequestChunkEvent a client has sent so far
    tasks_spawned,      \* every task pushed to GeneratingChunks so far
    needs_loaded,       \* chunk entities with NeedsLoaded and SerializedData
    needs_populated,    \* chunk entities with ChunkNeedsPopulated
    call                \* the function being evaluated: arguments and outcome

vars == <<structures, chunk_states, players, needs_generated, commands,
          generate_events, generating, request_events, bouncer_events,
          sent_messages, chunk_init_events, ran, client_requests, tasks_spawned,
          needs_loaded, needs_populated, call>>

\* no function is being evaluated
NoCall == [fn |-> "none"]

----------------------------------------------------------------------------
(* Bounds of the model *)

\* width in chunks of the planet of the scheduling model (a row of chunks:
\* height and length are 1)
MainWidth == 2
\* number of RequestChunkEvents clients send in one run
MaxRequests == 2
\* the same two bounds for the runs that are checked under fairness
LiveWidth == 1
LiveRequests == 2
\* size in chunks of the planet on which one pass of generate_chunks_near_players
\* is checked
NearWidth == 4
NearHeight == 2
NearLength == 3
\* width in chunks of the planet on which one pass of
\* unload_chunks_far_from_players is checked
PassWidth == 4
\* the schedule with the unload pass: width of the planet, number of requests
UnloadWidth == 3
UnloadRequests == 1
\* ... and the number of generation tasks of a run (a request for a chunk that
\* is unloaded again before it is answered spawns task after task)
UnloadTasks == 2
\* block lookups: the deepest voxel a task asks a material for
MaxDepth == 6

(* Program constants *)

\* generation radius of generate_chunks_near_players
rd == 2

\* retention radius of unload_chunks_far_from_players
retention == 3

PlanetEntity == "planet"

\* a second planet, present in the runs with two planets
MoonEntity == "moon"

----------------------------------------------------------------------------
(* Sequence helpers *)

Range(s) == {s[i] : i \in DOMAIN s}

CountOf(s, x) == Cardinality({i \in DOMAIN s : s[i] = x})

----------------------------------------------------------------------------
(* cosmos_core::utils::array_utils *)

\* faulty variant: the rows are counted from their far end
flatten_mirrored(x, y, z, width, height) ==
    z * width * height + y * width + (width - 1 - x)

flatten(x, y, z, width, height) == z * width * height + y * width + x

expand(index, width, height) ==
    LET wh == width * height
        z == index \div wh
        y == (index - z * wh) \div width
        x == (index - z * wh) - y * width
    IN <<x, y, z>>

----------------------------------------------------------------------------
(* cosmos_core::structure: Chunk and Structure *)

\* Chunk::new: an all-air chunk that knows its place in the structure
Chunk_new(x, y, z) == [x |-> x, y |-> y, z |-> z, populated |-> FALSE]

\* the chunk a generation task hands back: the same chunk, its blocks filled in
Populate(chunk) == [chunk EXCEPT !.populated = TRUE]

Structure_new(width, height, length) ==
    [width |-> width, height |-> height, length |-> length,
     chunks |-> [i \in 1..(width * height * length) |->
                    Chunk_new((i - 1) % width,
                              ((i - 1) \div width) % height,
                              (i - 1) \div (width * height))]]

chunk_from_chunk_coordinates(s, cx, cy, cz) ==
    s.chunks[flatten(cx, cy, cz, s.width, s.height) + 1]

\* Structure::set_chunk: self.chunks[i] = chunk (an index past the Vec panics)
set_chunk(s, chunk) ==
    LET i == flatten(chunk.x, chunk.y, chunk.z, s.width, s.height)
    IN IF i + 1 \in DOMAIN s.chunks
       THEN [s EXCEPT !.chunks[i + 1] = chunk]
       ELSE s

\* whether a chunk coordinate lies in 0..width, 0..height, 0..length
chunk_coords_within(s, cx, cy, cz) ==
    /\ cx >= 0 /\ cx < s.width
    /\ cy >= 0 /\ cy < s.height
    /\ cz >= 0 /\ cz < s.length

\* the lifecycle states of a fresh structure: nothing is loaded
ChunkStates_new(s) == [i \in DOMAIN s.chunks |-> "Unloaded"]

\* Structure::get_chunk_state
get_chunk_state(s, cs, cx, cy, cz) ==
    IF ~chunk_coords_within(s, cx, cy, cz) THEN "Invalid"
    ELSE cs[flatten(cx, cy, cz, s.width, s.height) + 1]

\* The lifecycle state set_chunk leaves behind: a fresh chunk put in place for
\* an accepted request is Loading, a populated chunk (a merged task result, a
\* chunk read from disk) is Loaded.
state_after_set_chunk(s, cs, chunk) ==
    LET i == flatten(chunk.x, chunk.y, chunk.z, s.width, s.height)
    IN IF i + 1 \in DOMAIN cs
       THEN [cs EXCEPT ![i + 1] = IF chunk.populated THEN "Loaded" ELSE "Loading"]
       ELSE cs

\* Structure::take_or_create_chunk_for_loading: the chunk a task will fill
take_or_create_chunk_for_loading(s, cx, cy, cz) ==
    IF chunk_coords_within(s, cx, cy, cz)
    THEN chunk_from_chunk_coordinates(s, cx, cy, cz)
    ELSE Chunk_new(cx, cy, cz)

\* ... which marks the coordinate as Loading
state_after_take_for_loading(s, cs, cx, cy, cz) ==
    IF chunk_coords_within(s, cx, cy, cz)
    THEN [cs EXCEPT ![flatten(cx, cy, cz, s.width, s.height) + 1] = "Loading"]
    ELSE cs

RECURSIVE CoordsFrom(_, _, _, _)
\* the chunk coordinates of the flattened indices i .. n - 1, in index order
CoordsFrom(i, n, width, height) ==
    IF i >= n THEN <<>>
    ELSE <<expand(i, width, height)>> \o CoordsFrom(i + 1, n, width, height)

\* Structure::chunk_iter: the in-bounds chunk coordinates of the box start..end
\* (inclusive), out-of-bounds positions skipped, in index order
chunk_iter(s, start, end) ==
    LET InBox(c) == /\ start[1] <= c[1] /\ c[1] <= end[1]
                    /\ start[2] <= c[2] /\ c[2] <= end[2]
                    /\ start[3] <= c[3] /\ c[3] <= end[3]
    IN SelectSeq(CoordsFrom(0, Len(s.chunks), s.width, s.height), InBox)

\* every chunk coordinate of a structure
ChunkCoordsOf(s) ==
    {<<x, y, z>> : x \in 0..(s.width - 1), y \in 0..(s.height - 1),
                   z \in 0..(s.length - 1)}

\* ChunkIteratorResult::EmptyChunk: the chunk at the position holds no blocks
IsEmptyChunk(s, c) == ~chunk_from_chunk_coordinates(s, c[1], c[2], c[3]).populated

----------------------------------------------------------------------------
(* Records of the server *)

NeedsGenerated(coords, entity) ==
    [chunk_coords |-> coords, structure_entity |-> entity]

RequestChunkEvent(requester, entity, coords) ==
    [requester_id |-> requester, structure_entity |-> entity, chunk_coords |-> coords]

GenerateChunkEvent(coords, entity) ==
    [chunk_coords |-> coords, structure_entity |-> entity]

ChunkData(requester, entity, chunk) ==
    [requester_id |-> requester, structure_entity |-> entity, serialized_chunk |-> chunk]

ChunkInitEvent(entity, x, y, z) ==
    [structure_entity |-> entity, x |-> x, y |-> y, z |-> z]

GeneratingChunk(chunk, entity) ==
    [chunk |-> chunk, structure_entity |-> entity, finished |-> FALSE]

----------------------------------------------------------------------------
(* The schedule of one tick *)

Systems == {"generate_chunks_near_players", "get_requested_chunk", "bounce_events",
            "check_needs_generated_system", "generate_planet",
            "notify_when_done_generating"}

\* faulty variant of the model: no system is chained
RunsAfter_unchained(sys) == {}

\* planet_generator::register chains its three systems; the others are unordered
RunsAfter(sys) ==
    CASE sys = "get_requested_chunk" -> {"generate_chunks_near_players"}
      [] sys = "bounce_events" -> {"generate_chunks_near_players", "get_requested_chunk"}
      [] OTHER -> {}

\* a system that panics ends the update and the app with it: nothing runs
\* after it
CanRun(sys) == "panic" \notin ran /\ sys \notin ran /\ RunsAfter(sys) \subseteq ran

NoCommands == [spawn |-> <<>>, despawn |-> {}]

----------------------------------------------------------------------------
(* planet_generator::get_requested_chunk *)

\* faulty variant: the request is answered and bounced as well
RequestLoaded_bounced(w, ev) ==
    LET c == ev.chunk_coords
        s == w.structures[ev.structure_entity]
    IN [w EXCEPT !.sent = Append(@, ChunkData(ev.requester_id, ev.structure_entity,
                              chunk_from_chunk_coordinates(s, c[1], c[2], c[3]))),
                 !.bounce = Append(@, ev)]

\* ChunkState::Loaded: the chunk is serialized and sent to the requester
RequestLoaded(w, ev) ==
    LET c == ev.chunk_coords
        s == w.structures[ev.structure_entity]
    IN [w EXCEPT !.sent = Append(@, ChunkData(ev.requester_id, ev.structure_entity,
                              chunk_from_chunk_coordinates(s, c[1], c[2], c[3])))]

\* faulty variant: a request for a Loading chunk spawns another flag
RequestLoading_flagged(w, ev) ==
    [w EXCEPT !.spawn = Append(@, NeedsGenerated(ev.chunk_coords, ev.structure_entity)),
              !.bounce = Append(@, ev)]

\* faulty variant: a request for a Loading chunk is dropped
RequestLoading_dropped(w, ev) == w

\* ChunkState::Loading: the request goes to the bouncer
RequestLoading(w, ev) == [w EXCEPT !.bounce = Append(@, ev)]

\* faulty variant: the flag is spawned but the chunk is not put in place
RequestUnloaded_unmarked(w, ev) ==
    [w EXCEPT !.spawn = Append(@, NeedsGenerated(ev.chunk_coords, ev.structure_entity)),
              !.bounce = Append(@, ev)]

\* ChunkState::Unloaded: a fresh chunk is put in place, a NeedsGenerated flag is
\* spawned as a child of the structure, and the request goes to the bouncer
RequestUnloaded(w, ev) ==
    LET c == ev.chunk_coords
        e == ev.structure_entity
        s == w.structures[e]
        chunk == Chunk_new(c[1], c[2], c[3])
    IN [w EXCEPT !.structures[e] = set_chunk(s, chunk),
                 !.chunk_states[e] = state_after_set_chunk(s, @, chunk),
                 !.spawn = Append(@, NeedsGenerated(c, e)),
                 !.bounce = Append(@, ev)]

\* faulty variant: a request for an Invalid coordinate is bounced
RequestInvalid_bounced(w, ev) == [w EXCEPT !.bounce = Append(@, ev)]

\* faulty variant: a NeedsGenerated flag is spawned for an Invalid coordinate
RequestInvalid_flagged(w, ev) ==
    [w EXCEPT !.spawn = Append(@, NeedsGenerated(ev.chunk_coords, ev.structure_entity))]

\* ChunkState::Invalid: logged, nothing else
RequestInvalid(w, ev) == w

HandleRequest(w, ev) ==
    IF ev.structure_entity \notin DOMAIN w.structures THEN w
    ELSE LET c == ev.chunk_coords
             e == ev.structure_entity
             state == get_chunk_state(w.structures[e], w.chunk_states[e], c[1], c[2], c[3])
         IN CASE state = "Loaded" -> RequestLoaded(w, ev)
              [] state = "Loading" -> RequestLoading(w, ev)
              [] state = "Unloaded" -> RequestUnloaded(w, ev)
              [] OTHER -> RequestInvalid(w, ev)

RECURSIVE get_requested_chunk(_, _)
get_requested_chunk(w, events) ==
    IF events = <<>> THEN w
    ELSE get_requested_chunk(HandleRequest(w, Head(events)), Tail(events))

SysGetRequestedChunk ==
    /\ CanRun("get_requested_chunk")
    /\ \E w \in {get_requested_chunk(
                    [structures |-> structures, chunk_states |-> chunk_states,
                     spawn |-> commands.spawn, bounce |-> bouncer_events,
                     sent |-> sent_messages],
                    request_events)} :
          /\ structures' = w.structures
          /\ chunk_states' = w.chunk_states
          /\ commands' = [commands EXCEPT !.spawn = w.spawn]
          /\ bouncer_events' = w.bounce
          /\ sent_messages' = w.sent
    /\ request_events' = <<>>
    /\ ran' = ran \cup {"get_requested_chunk"}
    /\ UNCHANGED <<players, needs_generated, generate_events, generating,
                   chunk_init_events, client_requests, tasks_spawned,
                   needs_loaded, needs_populated, call>>

(* planet_generator::bounce_events *)

\* faulty variant: the bounced requests are read and not sent again
bounce_events_dropped(requests, bouncers) == requests

bounce_events(requests, bouncers) == requests \o bouncers

SysBounceEvents ==
    /\ CanRun("bounce_events")
    /\ request_events' = bounce_events(request_events, bouncer_events)
    /\ bouncer_events' = <<>>
    /\ ran' = ran \cup {"bounce_events"}
    /\ UNCHANGED <<structures, chunk_states, players, needs_generated, commands,
                   generate_events, generating, sent_messages, chunk_init_events,
                   client_requests, tasks_spawned, needs_loaded,
                   needs_populated, call>>

----------------------------------------------------------------------------
(* planet_generator::generate_chunks_near_players *)

\* the nearest planet of a player (the world of the model holds one planet)
best_planet(structs) ==
    IF PlanetEntity \in DOMAIN structs THEN PlanetEntity ELSE "none"

\* faulty variant: the box has radius rd + 1
ChunksToGenerate_wide(s, cs, p) ==
    LET it == chunk_iter(s, <<p[1] - rd - 1, p[2] - rd - 1, p[3] - rd - 1>>,
                            <<p[1] + rd + 1, p[2] + rd + 1, p[3] + rd + 1>>)
        keep(c) == /\ IsEmptyChunk(s, c)
                   /\ get_chunk_state(s, cs, c[1], c[2], c[3]) = "Unloaded"
    IN SelectSeq(it, keep)

\* the coordinates one player selects: empty, Unloaded chunks of the box of
\* radius rd around the chunk the player stands in
ChunksToGenerate(s, cs, p) ==
    LET it == chunk_iter(s, <<p[1] - rd, p[2] - rd, p[3] - rd>>,
                            <<p[1] + rd, p[2] + rd, p[3] + rd>>)
        keep(c) == /\ IsEmptyChunk(s, c)
                   /\ get_chunk_state(s, cs, c[1], c[2], c[3]) = "Unloaded"
    IN SelectSeq(it, keep)

\* for (x, y, z) in chunks: set_chunk(Chunk::new(x, y, z)) and spawn the flag
MarkForGeneration(w, e, c) ==
    LET s == w.structures[e]
        chunk == Chunk_new(c[1], c[2], c[3])
    IN [w EXCEPT !.structures[e] = set_chunk(s, chunk),
                 !.chunk_states[e] = state_after_set_chunk(s, @, chunk),
                 !.spawn = Append(@, NeedsGenerated(c, e))]

RECURSIVE MarkAll(_, _, _)
MarkAll(w, e, chunks) ==
    IF chunks = <<>> THEN w
    ELSE MarkAll(MarkForGeneration(w, e, Head(chunks)), e, Tail(chunks))

GenerateNearPlayer(w, p) ==
    LET e == best_planet(w.structures)
    IN IF e = "none" THEN w
       ELSE MarkAll(w, e, ChunksToGenerate(w.structures[e], w.chunk_states[e], p))

RECURSIVE generate_chunks_near_players(_, _)
generate_chunks_near_players(w, ps) ==
    IF ps = <<>> THEN w
    ELSE generate_chunks_near_players(GenerateNearPlayer(w, Head(ps)), Tail(ps))

SysGenerateChunksNearPlayers ==
    /\ CanRun("generate_chunks_near_players")
    /\ \E w \in {generate_chunks_near_players(
                    [structures |-> structures, chunk_states |-> chunk_states,
                     spawn |-> commands.spawn],
                    players)} :
          /\ structures' = w.structures
          /\ chunk_states' = w.chunk_states
          /\ commands' = [commands EXCEPT !.spawn = w.spawn]
    /\ ran' = ran \cup {"generate_chunks_near_players"}
    /\ UNCHANGED <<players, needs_generated, generate_events, generating,
                   request_events, bouncer_events, sent_messages, chunk_init_events,
                   client_requests, tasks_spawned, needs_loaded,
                   needs_populated, call>>

----------------------------------------------------------------------------
(* planet_generator::unload_chunks_far_from_players *)

\* Where a planet lies: the chunk of the grid of PlanetEntity in which its chunk
\* (0, 0, 0) lies.  An observer is given by the chunk of that grid it stands in.
Origin(e) == IF e = MoonEntity THEN <<PassWidth + 1, 0, 0>> ELSE <<0, 0, 0>>

\* location.distance_sqrd(player), in half chunks: from the middle of the
\* structure to the middle of the observer's chunk
distance_sqrd(s, e, p) ==
    LET o == Origin(e)
        dx == 2 * p[1] + 1 - 2 * o[1] - s.width
        dy == 2 * p[2] + 1 - 2 * o[2] - s.height
        dz == 2 * p[3] + 1 - 2 * o[3] - s.length
    IN dx * dx + dy * dy + dz * dz

\* planets.iter(): the planets that exist, in the order of the query
PlanetOrder(structs) ==
    LET exists(e) == e \in DOMAIN structs
    IN SelectSeq(<<PlanetEntity, MoonEntity>>, exists)

\* the planet with the least distance to the observer, the first one of the
\* query among equals (dist < best_dist)
nearest_planet(structs, p) ==
    LET order == PlanetOrder(structs)
        dist(i) == distance_sqrd(structs[order[i]], order[i], p)
    IN IF order = <<>> THEN "none"
       ELSE order[CHOOSE i \in DOMAIN order :
                      /\ \A j \in DOMAIN order : dist(i) <= dist(j)
                      /\ \A j \in 1..(i - 1) : dist(j) > dist(i)]

\* (px, py, pz): the chunk of the planet's own grid the observer stands in
local_chunk(e, p) ==
    <<p[1] - Origin(e)[1], p[2] - Origin(e)[2], p[3] - Origin(e)[3]>>

\* faulty variant: every chunk of the planet is a candidate, the empty chunk
\* of a running task too
FilledChunks_all(s) == ChunkCoordsOf(s)

\* all_chunks_iter, FilledChunk: the positions of a planet that hold a chunk
\* with blocks
FilledChunks(s) == {c \in ChunkCoordsOf(s) : ~IsEmptyChunk(s, c)}

potential_chunks(structs) == [e \in DOMAIN structs |-> FilledChunks(structs[e])]

\* faulty variant: the box around the observer has radius 1
KeepNearPlayer_narrow(potential, structs, p) ==
    LET e == nearest_planet(structs, p)
        c == local_chunk(e, p)
    IN IF e = "none" THEN potential
       ELSE [potential EXCEPT ![e] = @ \ Range(chunk_iter(structs[e],
                                   <<c[1] - 1, c[2] - 1, c[3] - 1>>,
                                   <<c[1] + 1, c[2] + 1, c[3] + 1>>))]

\* one observer: the positions of the box of radius retention around it are
\* taken out of the set of its nearest planet
KeepNearPlayer(potential, structs, p) ==
    LET e == nearest_planet(structs, p)
        c == local_chunk(e, p)
    IN IF e = "none" THEN potential
       ELSE [potential EXCEPT ![e] = @ \ Range(chunk_iter(structs[e],
                                   <<c[1] - retention, c[2] - retention, c[3] - retention>>,
                                   <<c[1] + retention, c[2] + retention, c[3] + retention>>))]

RECURSIVE KeepNearPlayers(_, _, _)
KeepNearPlayers(potential, structs, ps) ==
    IF ps = <<>> THEN potential
    ELSE KeepNearPlayers(KeepNearPlayer(potential, structs, Head(ps)), structs, Tail(ps))

\* faulty variant: the chunk stays as it is
unload_chunk_at_kept(w, e, c) == w

\* Structure::unload_chunk_at: the chunk's blocks are dropped and the
\* coordinate is Unloaded
unload_chunk_at(w, e, c) ==
    LET s == w.structures[e]
    IN [w EXCEPT !.structures[e] = set_chunk(s, Chunk_new(c[1], c[2], c[3])),
                 !.chunk_states[e] =
                     [@ EXCEPT ![flatten(c[1], c[2], c[3], s.width, s.height) + 1] = "Unloaded"]]

RECURSIVE UnloadSet(_, _, _)
\* for (cx, cy, cz) in set: the order does not matter
UnloadSet(w, e, set) ==
    IF set = {} THEN w
    ELSE LET c == CHOOSE c \in set : TRUE
         IN UnloadSet(unload_chunk_at(w, e, c), e, set \ {c})

RECURSIVE UnloadPlanets(_, _, _)
UnloadPlanets(w, potential, order) ==
    IF order = <<>> THEN w
    ELSE UnloadPlanets(UnloadSet(w, Head(order), potential[Head(order)]),
                       potential, Tail(order))

unload_chunks_far_from_players(w, ps) ==
    UnloadPlanets(w,
                  KeepNearPlayers(potential_chunks(w.structures), w.structures, ps),
                  PlanetOrder(w.structures))

SysUnloadChunksFarFromPlayers ==
    /\ "panic" \notin ran
    /\ "unload_chunks_far_from_players" \notin ran
    /\ \E w \in {unload_chunks_far_from_players(
                    [structures |-> structures, chunk_states |-> chunk_states],
                    players)} :
          /\ structures' = w.structures
          /\ chunk_states' = w.chunk_states
    /\ ran' = ran \cup {"unload_chunks_far_from_players"}
    /\ UNCHANGED <<players, needs_generated, commands, generate_events, generating,
                   request_events, bouncer_events, sent_messages, chunk_init_events,
                   client_requests, tasks_spawned, needs_loaded,
                   needs_populated, call>>

----------------------------------------------------------------------------
(* planet_generator::check_needs_generated_system *)

\* a flag is handled when its parent is a planet of the biosphere that exists
FlagHandled(structs, flag) == flag.structure_entity \in DOMAIN structs

\* faulty variant: the flag entity is despawned and no event is sent
check_needs_generated_silent(w, i, flag) ==
    IF FlagHandled(w.structures, flag)
    THEN [w EXCEPT !.despawn = @ \cup {i}]
    ELSE w

\* the flag's event is sent and the flag entity is despawned (through Commands)
check_needs_generated(w, i, flag) ==
    IF FlagHandled(w.structures, flag)
    THEN [w EXCEPT !.events = Append(@, GenerateChunkEvent(flag.chunk_coords,
                                                            flag.structure_entity)),
                   !.despawn = @ \cup {i}]
    ELSE w

RECURSIVE check_needs_generated_system(_, _, _)
check_needs_generated_system(w, flags, i) ==
    IF i > Len(flags) THEN w
    ELSE check_needs_generated_system(check_needs_generated(w, i, flags[i]), flags, i + 1)

SysCheckNeedsGenerated ==
    /\ CanRun("check_needs_generated_system")
    /\ \E w \in {check_needs_generated_system(
                    [structures |-> structures, events |-> generate_events,
                     despawn |-> commands.despawn],
                    needs_generated, 1)} :
          /\ generate_events' = w.events
          /\ commands' = [commands EXCEPT !.despawn = w.despawn]
    /\ ran' = ran \cup {"check_needs_generated_system"}
    /\ UNCHANGED <<structures, chunk_states, players, needs_generated, generating,
                   request_events, bouncer_events, sent_messages, chunk_init_events,
                   client_requests, tasks_spawned, needs_loaded,
                   needs_populated, call>>

----------------------------------------------------------------------------
(* biosphere_generation::BlockRanges *)

\* BlockRanges::new keeps the vector it is given
BlockRanges_new(ranges) == [ranges |-> ranges]

\* what a lookup that finds no range does: panic!("No matching block range ..")
Panic == "panic"

\* faulty variant: the depth has to be greater than the minimum depth
RECURSIVE face_block_strict(_, _)
face_block_strict(self, depth) ==
    IF self.ranges = <<>> THEN Panic
    ELSE IF depth > Head(self.ranges)[2] THEN Head(self.ranges)[1]
    ELSE face_block_strict([self EXCEPT !.ranges = Tail(@)], depth)

\* for (block, d) in self.ranges.iter() { if depth >= *d { return block; } }
RECURSIVE face_block(_, _)
face_block(self, depth) ==
    IF self.ranges = <<>> THEN Panic
    ELSE IF depth >= Head(self.ranges)[2] THEN Head(self.ranges)[1]
    ELSE face_block([self EXCEPT !.ranges = Tail(@)], depth)

\* faulty variant: one of the two depths is enough
RECURSIVE edge_block_any(_, _, _)
edge_block_any(self, j_depth, k_depth) ==
    IF self.ranges = <<>> THEN Panic
    ELSE IF j_depth >= Head(self.ranges)[2] \/ k_depth >= Head(self.ranges)[2]
         THEN Head(self.ranges)[1]
    ELSE edge_block_any([self EXCEPT !.ranges = Tail(@)], j_depth, k_depth)

RECURSIVE edge_block(_, _, _)
edge_block(self, j_depth, k_depth) ==
    IF self.ranges = <<>> THEN Panic
    ELSE IF j_depth >= Head(self.ranges)[2] /\ k_depth >= Head(self.ranges)[2]
         THEN Head(self.ranges)[1]
    ELSE edge_block([self EXCEPT !.ranges = Tail(@)], j_depth, k_depth)

\* faulty variant: the z depth has to be greater than the minimum depth
RECURSIVE corner_block_strict(_, _, _, _)
corner_block_strict(self, x_depth, y_depth, z_depth) ==
    IF self.ranges = <<>> THEN Panic
    ELSE IF /\ x_depth >= Head(self.ranges)[2]
            /\ y_depth >= Head(self.ranges)[2]
            /\ z_depth > Head(self.ranges)[2]
         THEN Head(self.ranges)[1]
    ELSE corner_block_strict([self EXCEPT !.ranges = Tail(@)], x_depth, y_depth, z_depth)

RECURSIVE corner_block(_, _, _, _)
corner_block(self, x_depth, y_depth, z_depth) ==
    IF self.ranges = <<>> THEN Panic
    ELSE IF /\ x_depth >= Head(self.ranges)[2]
            /\ y_depth >= Head(self.ranges)[2]
            /\ z_depth >= Head(self.ranges)[2]
         THEN Head(self.ranges)[1]
    ELSE corner_block([self EXCEPT !.ranges = Tail(@)], x_depth, y_depth, z_depth)

\* grass_biosphere::make_block_ranges: the table of the grass biosphere
make_block_ranges ==
    BlockRanges_new(<<<<"cosmos:stone", 5>>, <<"cosmos:dirt", 1>>, <<"cosmos:grass", 0>>>>)

\* A task that fills one voxel of its chunk: it owns the chunk and a clone of
\* the block ranges, and asks for the material at the voxel's depth below the
\* surface of one face (do_face), two faces (do_edge) or three (do_corner).
VoxelTask(chunk, entity, block_ranges, depths) ==
    [chunk |-> chunk, structure_entity |-> entity, finished |-> FALSE,
     block_ranges |-> block_ranges, depths |-> depths, block |-> "none"]

IsVoxelTask(gc) == "depths" \in DOMAIN gc

\* the lookup of the task's voxel
VoxelBlock(gc) ==
    CASE Len(gc.depths) = 1 -> face_block(gc.block_ranges, gc.depths[1])
      [] Len(gc.depths) = 2 -> edge_block(gc.block_ranges, gc.depths[1], gc.depths[2])
      [] OTHER -> corner_block(gc.block_ranges, gc.depths[1], gc.depths[2], gc.depths[3])

\* the task runs on a worker thread: it ends with the voxel's block, or the
\* lookup panics and the task ends without a result
TaskRun(i) ==
    /\ i \in DOMAIN generating
    /\ IsVoxelTask(generating[i])
    /\ ~generating[i].finished
    /\ generating' = [generating EXCEPT ![i].finished = TRUE,
                                        ![i].block = VoxelBlock(generating[i])]
    /\ UNCHANGED <<structures, chunk_states, players, needs_generated, commands,
                   generate_events, request_events, bouncer_events, sent_messages,
                   chunk_init_events, ran, client_requests, tasks_spawned,
                   needs_loaded, needs_populated, call>>

----------------------------------------------------------------------------
(* biosphere_generation::generate_planet *)

\* one event: the chunk is taken for loading and a task that fills it is
\* spawned on the task pool and pushed to GeneratingChunks
GenerateChunk(w, ev) ==
    LET e == ev.structure_entity
        c == ev.chunk_coords
    IN IF e \notin DOMAIN w.structures THEN w
       ELSE LET s == w.structures[e]
                chunk == take_or_create_chunk_for_loading(s, c[1], c[2], c[3])
            IN [w EXCEPT !.chunk_states[e] =
                             state_after_take_for_loading(s, @, c[1], c[2], c[3]),
                         !.generating = Append(@, GeneratingChunk(chunk, e)),
                         !.spawned = Append(@, [structure_entity |-> e,
                                                chunk_coords |-> c])]

RECURSIVE generate_planet(_, _)
generate_planet(w, events) ==
    IF events = <<>> THEN w
    ELSE generate_planet(GenerateChunk(w, Head(events)), Tail(events))

SysGeneratePlanet ==
    /\ CanRun("generate_planet")
    /\ \E w \in {generate_planet(
                    [structures |-> structures, chunk_states |-> chunk_states,
                     generating |-> generating, spawned |-> tasks_spawned],
                    generate_events)} :
          /\ chunk_states' = w.chunk_states
          /\ generating' = w.generating
          /\ tasks_spawned' = w.spawned
    /\ generate_events' = <<>>
    /\ ran' = ran \cup {"generate_planet"}
    /\ UNCHANGED <<structures, players, needs_generated, commands, request_events,
                   bouncer_events, sent_messages, chunk_init_events, client_requests,
                   needs_loaded, needs_populated, call>>

\* faulty variant: the task writes its chunk into the structure itself
TaskFinish_merging(i) ==
    /\ i \in DOMAIN generating
    /\ ~generating[i].finished
    /\ generating' = [generating EXCEPT ![i].finished = TRUE]
    /\ structures' =
           [structures EXCEPT ![generating[i].structure_entity] =
                                  set_chunk(@, Populate(generating[i].chunk))]
    /\ UNCHANGED <<chunk_states, players, needs_generated, commands,
                   generate_events, request_events, bouncer_events, sent_messages,
                   chunk_init_events, ran, client_requests, tasks_spawned,
                   needs_loaded, needs_populated, call>>

\* a task of the AsyncComputeTaskPool runs to its end on a worker thread
TaskFinish(i) ==
    /\ i \in DOMAIN generating
    /\ ~generating[i].finished
    /\ generating' = [generating EXCEPT ![i].finished = TRUE]
    /\ UNCHANGED <<structures, chunk_states, players, needs_generated, commands,
                   generate_events, request_events, bouncer_events, sent_messages,
                   chunk_init_events, ran, client_requests, tasks_spawned,
                   needs_loaded, needs_populated, call>>

----------------------------------------------------------------------------
(* biosphere_generation::notify_when_done_generating *)

\* faulty variant: the merged task is pushed back to generating.generating
PollReady_kept(w, gc) ==
    LET e == gc.structure_entity
        chunk == Populate(gc.chunk)
    IN IF e \in DOMAIN w.structures
       THEN [w EXCEPT !.structures[e] = set_chunk(w.structures[e], chunk),
                      !.chunk_states[e] = state_after_set_chunk(w.structures[e], @, chunk),
                      !.init = Append(@, ChunkInitEvent(e, chunk.x, chunk.y, chunk.z)),
                      !.generating = Append(@, gc)]
       ELSE w

\* faulty variant: the chunk is announced and not merged
PollReady_announced_only(w, gc) ==
    LET e == gc.structure_entity
        chunk == Populate(gc.chunk)
    IN IF e \in DOMAIN w.structures
       THEN [w EXCEPT !.init = Append(@, ChunkInitEvent(e, chunk.x, chunk.y, chunk.z))]
       ELSE w

\* faulty variant: a task whose structure is gone is pushed back
PollReady_gone_kept(w, gc) ==
    LET e == gc.structure_entity
        chunk == Populate(gc.chunk)
    IN IF e \in DOMAIN w.structures
       THEN [w EXCEPT !.structures[e] = set_chunk(w.structures[e], chunk),
                      !.chunk_states[e] = state_after_set_chunk(w.structures[e], @, chunk),
                      !.init = Append(@, ChunkInitEvent(e, chunk.x, chunk.y, chunk.z))]
       ELSE [w EXCEPT !.generating = Append(@, gc)]

\* poll_once gave the task's result: the chunk is merged and announced when its
\* structure exists; either way the task is not pushed back
PollReady(w, gc) ==
    LET e == gc.structure_entity
        chunk == Populate(gc.chunk)
    IN IF e \in DOMAIN w.structures
       THEN [w EXCEPT !.structures[e] = set_chunk(w.structures[e], chunk),
                      !.chunk_states[e] = state_after_set_chunk(w.structures[e], @, chunk),
                      !.init = Append(@, ChunkInitEvent(e, chunk.x, chunk.y, chunk.z))]
       ELSE w

\* faulty variant: a task that is not ready is forgotten
PollPending_dropped(w, gc) == w

\* poll_once gave None: the task goes back to generating.generating
PollPending(w, gc) == [w EXCEPT !.generating = Append(@, gc)]

PollTask(w, gc) == IF gc.finished THEN PollReady(w, gc) ELSE PollPending(w, gc)

\* future::block_on(future::poll_once(&mut task)) panics when the task ended in
\* a panic: awaiting such a Task fails with "task has failed"
poll_panics(gc) == IsVoxelTask(gc) /\ gc.finished /\ gc.block = Panic

\* The tasks are polled in the order of the vector.  A poll that panics unwinds
\* out of the system: the tasks not yet polled are dropped with still_todo and
\* only those pushed back before stay in generating.generating.
RECURSIVE notify_when_done_generating(_, _)
notify_when_done_generating(w, still_todo) ==
    IF still_todo = <<>> THEN w
    ELSE IF poll_panics(Head(still_todo)) THEN [w EXCEPT !.panicked = TRUE]
    ELSE notify_when_done_generating(PollTask(w, Head(still_todo)), Tail(still_todo))

SysNotifyWhenDoneGenerating ==
    /\ CanRun("notify_when_done_generating")
    /\ \E w \in {notify_when_done_generating(
                    [structures |-> structures, chunk_states |-> chunk_states,
                     generating |-> <<>>, init |-> chunk_init_events,
                     panicked |-> FALSE],
                    generating)} :
          /\ structures' = w.structures
          /\ chunk_states' = w.chunk_states
          /\ generating' = w.generating
          /\ chunk_init_events' = w.init
          /\ ran' = ran \cup {"notify_when_done_generating"}
                        \cup (IF w.panicked THEN {"panic"} ELSE {})
    /\ UNCHANGED <<players, needs_generated, commands, generate_events,
                   request_events, bouncer_events, sent_messages, client_requests,
                   tasks_spawned, needs_loaded, needs_populated, call>>

----------------------------------------------------------------------------
(* planet::persistence::load_chunk *)

\* a chunk entity that carries NeedsLoaded, SerializedData and ChunkEntity;
\* sd is what deserialize_data::<Chunk> gives for its data: <<chunk>> for
\* Some(chunk), <<>> for None
NeedsLoaded(entity, sd) == [structure_entity |-> entity, sd |-> sd]

\* if let Some(chunk) = sd.deserialize_data::<Chunk>("cosmos:chunk") and the
\* structure exists: set_chunk(chunk) and a ChunkInitEvent
LoadOne(w, nl) ==
    LET e == nl.structure_entity
        chunk == nl.sd[1]
    IN IF nl.sd # <<>> /\ e \in DOMAIN w.structures
       THEN [w EXCEPT !.structures[e] = set_chunk(w.structures[e], chunk),
                      !.chunk_states[e] =
                          state_after_set_chunk(w.structures[e], @, chunk),
                      !.init = Append(@, ChunkInitEvent(e, chunk.x, chunk.y, chunk.z))]
       ELSE w

RECURSIVE load_chunk(_, _)
load_chunk(w, entries) ==
    IF entries = <<>> THEN w
    ELSE load_chunk(LoadOne(w, Head(entries)), Tail(entries))

\* load_chunk runs in the update in which the entities carry NeedsLoaded;
\* done_loading, which runs after it, takes NeedsLoaded and SerializedData off
SysLoadChunk ==
    /\ "panic" \notin ran
    /\ needs_loaded # <<>>
    /\ \E w \in {load_chunk([structures |-> structures, chunk_states |-> chunk_states,
                               init |-> chunk_init_events], needs_loaded)} :
          /\ structures' = w.structures
          /\ chunk_states' = w.chunk_states
          /\ chunk_init_events' = w.init
    /\ needs_loaded' = <<>>
    /\ UNCHANGED <<players, needs_generated, commands, generate_events, generating,
                   request_events, bouncer_events, sent_messages, ran,
                   client_requests, tasks_spawned, needs_populated, call>>

----------------------------------------------------------------------------
(* The end of the tick: the queued Commands are applied *)

RECURSIVE KeptFlags(_, _, _)
\* the flags from index i on that no despawn command names
KeptFlags(flags, despawn, i) ==
    IF i > Len(flags) THEN <<>>
    ELSE (IF i \in despawn THEN <<>> ELSE <<flags[i]>>) \o KeptFlags(flags, despawn, i + 1)

ApplyCommands(flags, cmds) == KeptFlags(flags, cmds.despawn, 1) \o cmds.spawn

\* the deferred commands of the tick are applied
EndTickCommands ==
    /\ needs_generated' = ApplyCommands(needs_generated, commands)
    /\ commands' = NoCommands
    /\ UNCHANGED <<structures, chunk_states, players, generate_events, generating,
                   request_events, bouncer_events, sent_messages, chunk_init_events,
                   client_requests, tasks_spawned, needs_loaded,
                   needs_populated, call>>

EndTick ==
    /\ ran = Systems
    /\ ran' = {}
    /\ EndTickCommands

----------------------------------------------------------------------------
(* The environment *)

\* every chunk coordinate a client asks for in some run: those of the widest
\* planet and the first one past its width
RequestCoords ==
    {<<x, 0, 0>> : x \in 0..MainWidth}

\* a client's request arrives from the network and is sent as an event before
\* the systems of the tick run
ClientRequest(requester, c, limit) ==
    /\ ran = {}
    /\ Len(client_requests) < limit
    /\ LET ev == RequestChunkEvent(requester, PlanetEntity, c)
       IN /\ request_events' = Append(request_events, ev)
          /\ client_requests' = Append(client_requests, ev)
    /\ UNCHANGED <<structures, chunk_states, players, needs_generated, commands,
                   generate_events, generating, bouncer_events, sent_messages,
                   chunk_init_events, ran, tasks_spawned, needs_loaded,
                   needs_populated, call>>

\* another system despawns the planet entity: its command is applied between
\* two ticks
DespawnStructure(e) ==
    /\ ran = {}
    /\ e \in DOMAIN structures
    /\ structures' = [x \in DOMAIN structures \ {e} |-> structures[x]]
    /\ chunk_states' = [x \in DOMAIN chunk_states \ {e} |-> chunk_states[x]]
    /\ UNCHANGED <<players, needs_generated, commands, generate_events, generating,
                   request_events, bouncer_events, sent_messages, chunk_init_events,
                   ran, client_requests, tasks_spawned, needs_loaded,
                   needs_populated, call>>

----------------------------------------------------------------------------
(* The scheduling model: one planet, at most one observer *)

\* where the observer may stand: in the planet's first chunk, or width + rd - 1
\* chunks along x, from where only the last column of chunks is in reach
PlayerChunks(width) == {<<0, 0, 0>>, <<width + rd - 1, 0, 0>>}

\* a planet that is a row of width chunks, nothing of it generated
InitPlanet(width) ==
    /\ structures = [e \in {PlanetEntity} |-> Structure_new(width, 1, 1)]
    /\ chunk_states = [e \in {PlanetEntity} |-> ChunkStates_new(structures[e])]
    /\ players \in {<<>>} \cup {<<p>> : p \in PlayerChunks(width)}
    /\ needs_generated = <<>>
    /\ commands = NoCommands
    /\ generate_events = <<>>
    /\ generating = <<>>
    /\ request_events = <<>>
    /\ bouncer_events = <<>>
    /\ sent_messages = <<>>
    /\ chunk_init_events = <<>>
    /\ ran = {}
    /\ client_requests = <<>>
    /\ tasks_spawned = <<>>
    /\ needs_loaded = <<>>
    /\ needs_populated = <<>>
    /\ call = NoCall

Init == InitPlanet(MainWidth)

Tick ==
    \/ SysGenerateChunksNearPlayers
    \/ SysGetRequestedChunk
    \/ SysBounceEvents
    \/ SysCheckNeedsGenerated
    \/ SysGeneratePlanet
    \/ SysNotifyWhenDoneGenerating
    \/ EndTick

Worker == \E i \in DOMAIN generating : TaskFinish(i)

\* every request comes from another client: the n-th has requester id n; it
\* asks for a coordinate of the planet or for the first one past its width
Client ==
    \E x \in 0..structures[PlanetEntity].width :
        ClientRequest(Len(client_requests) + 1, <<x, 0, 0>>, MaxRequests)

Despawn == \E e \in DOMAIN structures : DespawnStructure(e)

\* the planet exists for the whole run
Next == Tick \/ Worker \/ Client

Spec == Init /\ [][Next]_vars

\* the planet may be despawned between two ticks
NextDespawn == Tick \/ Worker \/ Despawn

SpecDespawn == Init /\ [][NextDespawn]_vars

LiveInit == InitPlanet(LiveWidth)

LiveClient ==
    \E x \in 0..structures[PlanetEntity].width :
        ClientRequest(Len(client_requests) + 1, <<x, 0, 0>>, LiveRequests)

LiveNext == Tick \/ Worker \/ LiveClient

\* The schedule runs tick after tick and every task of the pool ends.  A step
\* of Tick is possible in every state (a system that may run, or the end of
\* the tick), so that the ticks going on for ever is weak fairness of Tick.
LiveSpec == LiveInit /\ [][LiveNext]_vars /\ []<><<Tick>>_vars /\ WF_vars(Worker)

----------------------------------------------------------------------------
(* The registered schedule with an observer that is far from the planet *)

\* the observer stands retention + 1 chunks past the last chunk of the planet:
\* no chunk of the planet is within the retention radius
FarChunk == <<LiveWidth + retention, 0, 0>>

FarInit ==
    /\ structures = [e \in {PlanetEntity} |-> Structure_new(LiveWidth, 1, 1)]
    /\ chunk_states = [e \in {PlanetEntity} |-> ChunkStates_new(structures[e])]
    /\ players = <<FarChunk>>
    /\ needs_generated = <<>>
    /\ commands = NoCommands
    /\ generate_events = <<>>
    /\ generating = <<>>
    /\ request_events = <<>>
    /\ bouncer_events = <<>>
    /\ sent_messages = <<>>
    /\ chunk_init_events = <<>>
    /\ ran = {}
    /\ client_requests = <<>>
    /\ tasks_spawned = <<>>
    /\ needs_loaded = <<>>
    /\ needs_populated = <<>>
    /\ call = NoCall

\* the systems that register adds, the task pool and the clients
FarSpec == FarInit /\ [][LiveNext]_vars

----------------------------------------------------------------------------
(* The schedule with unload_chunks_far_from_players in its place in the chain *)

UnloadSystems == Systems \cup {"unload_chunks_far_from_players"}

\* (generate_chunks_near_players, unload_chunks_far_from_players,
\*  get_requested_chunk, bounce_events).chain()
UnloadTick ==
    \/ SysGenerateChunksNearPlayers
    \/ ("generate_chunks_near_players" \in ran /\ SysUnloadChunksFarFromPlayers)
    \/ ("unload_chunks_far_from_players" \in ran /\ SysGetRequestedChunk)
    \/ SysBounceEvents
    \/ SysCheckNeedsGenerated
    \/ (Len(tasks_spawned) + Len(generate_events) <= UnloadTasks /\ SysGeneratePlanet)
    \/ SysNotifyWhenDoneGenerating
    \/ (ran = UnloadSystems /\ ran' = {} /\ EndTickCommands)

\* where an observer may stand beside a row of width chunks: NearChunk has the
\* last chunk within rd and the one before it within retention only, AwayChunk
\* has no chunk within retention
NearChunk(width) == <<width - 1 + rd, 0, 0>>

AwayChunk(width) == <<width + retention, 0, 0>>

UnloadInit ==
    /\ structures = [e \in {PlanetEntity} |-> Structure_new(UnloadWidth, 1, 1)]
    /\ chunk_states = [e \in {PlanetEntity} |-> ChunkStates_new(structures[e])]
    /\ players \in {<<>>, <<NearChunk(UnloadWidth)>>, <<AwayChunk(UnloadWidth)>>,
                    <<AwayChunk(UnloadWidth), NearChunk(UnloadWidth)>>}
    /\ needs_generated = <<>>
    /\ commands = NoCommands
    /\ generate_events = <<>>
    /\ generating = <<>>
    /\ request_events = <<>>
    /\ bouncer_events = <<>>
    /\ sent_messages = <<>>
    /\ chunk_init_events = <<>>
    /\ ran = {}
    /\ client_requests = <<>>
    /\ tasks_spawned = <<>>
    /\ needs_loaded = <<>>
    /\ needs_populated = <<>>
    /\ call = NoCall

\* clients ask for chunks of the planet
UnloadClient ==
    \E x \in 0..(structures[PlanetEntity].width - 1) :
        ClientRequest(Len(client_requests) + 1, <<x, 0, 0>>, UnloadRequests)

\* observers that do not move
UnloadNext == UnloadTick \/ Worker \/ UnloadClient

UnloadSpec == UnloadInit /\ [][UnloadNext]_vars

\* The observer moves to another chunk.  The system that moves it is not
\* ordered with the systems of the model: it may run between any two of them.
Move ==
    /\ \E i \in DOMAIN players :
       \E q \in {NearChunk(structures[PlanetEntity].width),
                  AwayChunk(structures[PlanetEntity].width)} :
          /\ q # players[i]
          /\ players' = [players EXCEPT ![i] = q]
    /\ UNCHANGED <<structures, chunk_states, needs_generated, commands, generate_events,
                   generating, request_events, bouncer_events, sent_messages,
                   chunk_init_events, ran, client_requests, tasks_spawned,
                   needs_loaded, needs_populated, call>>

\* one observer beside a planet of LiveWidth chunks, nothing generated
MoveInit ==
    /\ structures = [e \in {PlanetEntity} |-> Structure_new(LiveWidth, 1, 1)]
    /\ chunk_states = [e \in {PlanetEntity} |-> ChunkStates_new(structures[e])]
    /\ players = <<NearChunk(LiveWidth)>>
    /\ needs_generated = <<>>
    /\ commands = NoCommands
    /\ generate_events = <<>>
    /\ generating = <<>>
    /\ request_events = <<>>
    /\ bouncer_events = <<>>
    /\ sent_messages = <<>>
    /\ chunk_init_events = <<>>
    /\ ran = {}
    /\ client_requests = <<>>
    /\ tasks_spawned = <<>>
    /\ needs_loaded = <<>>
    /\ needs_populated = <<>>
    /\ call = NoCall

MoveNext == UnloadTick \/ Worker \/ Move

\* the ticks go on for ever and every task of the pool ends
MoveSpec ==
    MoveInit /\ [][MoveNext]_vars /\ []<><<UnloadTick>>_vars /\ WF_vars(Worker)

----------------------------------------------------------------------------
(* One pass of generate_chunks_near_players over a planet of three dimensions *)

\* the store after an observer stood in chunk q for one tick: the chunks in its
\* reach are Loading and their flags are spawned
StoreAfterTick(s, q) ==
    generate_chunks_near_players(
        [structures |-> [e \in {PlanetEntity} |-> s],
         chunk_states |-> [e \in {PlanetEntity} |-> ChunkStates_new(s)],
         spawn |-> <<>>],
        <<q>>)

\* the tasks generate_planet spawns for those flags, every one run to its end
TasksAfterTick(s, q) ==
    LET near == StoreAfterTick(s, q)
        flags == ApplyCommands(<<>>, [spawn |-> near.spawn, despawn |-> {}])
        sent == check_needs_generated_system(
                    [structures |-> near.structures, events |-> <<>>, despawn |-> {}],
                    flags, 1)
        made == generate_planet(
                    [structures |-> near.structures, chunk_states |-> near.chunk_states,
                     generating |-> <<>>, spawned |-> <<>>],
                    sent.events)
    IN [made EXCEPT !.generating =
                        [i \in DOMAIN made.generating |->
                            [made.generating[i] EXCEPT !.finished = TRUE]]]

\* the store after those tasks were merged by notify_when_done_generating
StoreAfterMerge(s, q) ==
    LET made == TasksAfterTick(s, q)
    IN notify_when_done_generating(
           [structures |-> made.structures, chunk_states |-> made.chunk_states,
            generating |-> <<>>, init |-> <<>>, panicked |-> FALSE],
           made.generating)

\* where the observers stand: up to rd + 1 chunks outside the planet on every axis
NearChunks ==
    {<<x, y, z>> : x \in (0 - rd - 1)..(NearWidth + rd),
                   y \in (0 - rd - 1)..(NearHeight + rd),
                   z \in (0 - rd - 1)..(NearLength + rd)}

\* where an earlier observer stood: in a corner chunk of the planet
EarlierChunks == {<<0, 0, 0>>, <<NearWidth - 1, NearHeight - 1, NearLength - 1>>}

\* The start of a tick with a single observer in chunk p.  The planet is
\* untouched, or an earlier observer stood in chunk q and left: after one tick
\* (the chunks in its reach are Loading, their flags alive) or after its
\* chunks were generated and merged (they are Loaded).
NearInit ==
    /\ \E p \in NearChunks : players = <<p>>
    /\ \E s \in {Structure_new(NearWidth, NearHeight, NearLength)} :
          \/ /\ structures = [e \in {PlanetEntity} |-> s]
             /\ chunk_states = [e \in {PlanetEntity} |-> ChunkStates_new(s)]
             /\ needs_generated = <<>>
             /\ chunk_init_events = <<>>
             /\ tasks_spawned = <<>>
             /\ needs_loaded = <<>>
             /\ needs_populated = <<>>
             /\ call = NoCall
          \/ \E q \in EarlierChunks : \E w \in {StoreAfterTick(s, q)} :
                /\ structures = w.structures
                /\ chunk_states = w.chunk_states
                /\ needs_generated = ApplyCommands(<<>>, [spawn |-> w.spawn, despawn |-> {}])
                /\ chunk_init_events = <<>>
                /\ tasks_spawned = <<>>
                /\ needs_loaded = <<>>
                /\ needs_populated = <<>>
                /\ call = NoCall
          \/ \E q \in EarlierChunks : \E w \in {StoreAfterMerge(s, q)} :
                /\ structures = w.structures
                /\ chunk_states = w.chunk_states
                /\ needs_generated = <<>>
                /\ chunk_init_events = w.init
                /\ tasks_spawned = TasksAfterTick(s, q).spawned
                /\ needs_loaded = <<>>
                /\ needs_populated = <<>>
                /\ call = NoCall
    /\ commands = NoCommands
    /\ generate_events = <<>>
    /\ generating = <<>>
    /\ request_events = <<>>
    /\ bouncer_events = <<>>
    /\ sent_messages = <<>>
    /\ ran = {}
    /\ client_requests = <<>>

\* the first system of the tick runs
NearNext == SysGenerateChunksNearPlayers

NearSpec == NearInit /\ [][NearNext]_vars

----------------------------------------------------------------------------
(* One pass of unload_chunks_far_from_players over one or two planets *)

\* the store of a planet after the chunks of the set were asked for by clients,
\* generated and merged
StoreWithLoaded(e, s, set) ==
    LET IsIn(c) == c \in set
        coords == SelectSeq(CoordsFrom(0, Len(s.chunks), s.width, s.height), IsIn)
        tasks == [i \in DOMAIN coords |->
                     [GeneratingChunk(Chunk_new(coords[i][1], coords[i][2], coords[i][3]), e)
                         EXCEPT !.finished = TRUE]]
    IN notify_when_done_generating(
           [structures |-> [x \in {e} |-> s],
            chunk_states |-> [x \in {e} |-> ChunkStates_new(s)],
            generating |-> <<>>, init |-> <<>>, panicked |-> FALSE],
           tasks)

\* the chunks of a planet that are Loaded when the pass runs: all of them, or
\* every second one
LoadedChoices(s) == {ChunkCoordsOf(s), {c \in ChunkCoordsOf(s) : c[1] % 2 = 0}}

\* where the observers stand: along the row of the two planets and up to
\* retention + 1 chunks beside it
PassChunks ==
    {<<x, y, 0>> : x \in (0 - retention - 1)..(PassWidth + 4 + retention),
                   y \in {0, retention, retention + 1}}

\* the planets of a run: PlanetEntity alone, or with MoonEntity (3 chunks wide)
\* one chunk past its end
PassPlanets ==
    {[e \in {PlanetEntity} |-> Structure_new(PassWidth, 1, 1)],
     [e \in {PlanetEntity, MoonEntity} |->
         IF e = PlanetEntity THEN Structure_new(PassWidth, 1, 1)
                             ELSE Structure_new(3, 1, 1)]}

\* the start of a tick with up to two observers and one or two planets, some of
\* whose chunks are Loaded
PassInit ==
    /\ players \in {<<>>} \cup {<<p>> : p \in PassChunks}
                  \cup {<<p, q>> : p \in PassChunks, q \in PassChunks}
    /\ \E planets \in PassPlanets :
       \E loaded \in [DOMAIN planets -> UNION {LoadedChoices(planets[e]) : e \in DOMAIN planets}] :
          /\ \A e \in DOMAIN planets : loaded[e] \in LoadedChoices(planets[e])
          /\ structures = [e \in DOMAIN planets |->
                              StoreWithLoaded(e, planets[e], loaded[e]).structures[e]]
          /\ chunk_states = [e \in DOMAIN planets |->
                                StoreWithLoaded(e, planets[e], loaded[e]).chunk_states[e]]
    /\ needs_generated = <<>>
    /\ commands = NoCommands
    /\ generate_events = <<>>
    /\ generating = <<>>
    /\ request_events = <<>>
    /\ bouncer_events = <<>>
    /\ sent_messages = <<>>
    /\ chunk_init_events = <<>>
    /\ ran = {}
    /\ client_requests = <<>>
    /\ tasks_spawned = <<>>
    /\ needs_loaded = <<>>
    /\ needs_populated = <<>>
    /\ call = NoCall

PassNext == SysUnloadChunksFarFromPlayers

PassSpec == PassInit /\ [][PassNext]_vars

----------------------------------------------------------------------------
(* One task that looks up the block of a voxel *)

\* every table made of entries of the grass table, in every order
Tables ==
    LET pool == Range(make_block_ranges.ranges)
    IN {BlockRanges_new(t) :
           t \in {u \in UNION {[1..n -> pool] : n \in 1..Cardinality(pool)} :
                     \A i, j \in DOMAIN u : i # j => u[i] # u[j]}}

\* the depths of a voxel of a face, an edge or a corner chunk
Depths == UNION {[1..n -> 0..MaxDepth] : n \in 1..3}

\* generate_planet has dispatched the task of the planet's only chunk
RangesInit ==
    /\ structures = [e \in {PlanetEntity} |-> Structure_new(1, 1, 1)]
    /\ chunk_states = [e \in {PlanetEntity} |-> <<"Loading">>]
    /\ players = <<>>
    /\ needs_generated = <<>>
    /\ commands = NoCommands
    /\ generate_events = <<>>
    /\ \E t \in Tables : \E d \in Depths :
          generating = <<VoxelTask(Chunk_new(0, 0, 0), PlanetEntity, t, d)>>
    /\ request_events = <<>>
    /\ bouncer_events = <<>>
    /\ sent_messages = <<>>
    /\ chunk_init_events = <<>>
    /\ ran = {}
    /\ client_requests = <<>>
    /\ tasks_spawned = <<[structure_entity |-> PlanetEntity, chunk_coords |-> <<0, 0, 0>>]>>
    /\ needs_loaded = <<>>
    /\ needs_populated = <<>>
    /\ call = NoCall

RangesNext == \E i \in DOMAIN generating : TaskRun(i)

RangesSpec == RangesInit /\ [][RangesNext]_vars

----------------------------------------------------------------------------
(* The schedule with tasks that may end in a panic *)

\* the table of the grass biosphere, whole or without its zero-depth entry
PanicTables ==
    {make_block_ranges,
     BlockRanges_new(SubSeq(make_block_ranges.ranges, 1,
                            Len(make_block_ranges.ranges) - 1))}

\* generate_planet has dispatched a task for every chunk of a row of MainWidth
\* chunks; each task fills a voxel at the surface or MaxDepth below it
PanicInit ==
    /\ structures = [e \in {PlanetEntity} |-> Structure_new(MainWidth, 1, 1)]
    /\ chunk_states = [e \in {PlanetEntity} |-> [i \in 1..MainWidth |-> "Loading"]]
    /\ players = <<>>
    /\ needs_generated = <<>>
    /\ commands = NoCommands
    /\ generate_events = <<>>
    /\ \E t \in PanicTables : \E d \in [1..MainWidth -> {<<0>>, <<MaxDepth>>}] :
          generating = [i \in 1..MainWidth |->
                           VoxelTask(Chunk_new(i - 1, 0, 0), PlanetEntity, t, d[i])]
    /\ request_events = <<>>
    /\ bouncer_events = <<>>
    /\ sent_messages = <<>>
    /\ chunk_init_events = <<>>
    /\ ran = {}
    /\ client_requests = <<>>
    /\ tasks_spawned = [i \in 1..MainWidth |->
                           [structure_entity |-> PlanetEntity,
                            chunk_coords |-> <<i - 1, 0, 0>>]]
    /\ needs_loaded = <<>>
    /\ needs_populated = <<>>
    /\ call = NoCall

\* the systems of the tick and the worker threads, as long as the app runs
PanicNext ==
    \/ Tick
    \/ ("panic" \notin ran /\ \E i \in DOMAIN generating : TaskRun(i))

PanicSpec == PanicInit /\ [][PanicNext]_vars

----------------------------------------------------------------------------
(* The schedule with the unload pass and chunks read from disk *)

\* what may wait to be loaded: nothing, the saved first chunk of the planet, or
\* a file that does not deserialize to a chunk
SavedChunks ==
    {<<>>,
     <<NeedsLoaded(PlanetEntity, <<Populate(Chunk_new(0, 0, 0))>>)>>,
     <<NeedsLoaded(PlanetEntity, <<>>)>>}

StoreInit ==
    /\ structures = [e \in {PlanetEntity} |-> Structure_new(LiveWidth, 1, 1)]
    /\ chunk_states = [e \in {PlanetEntity} |-> ChunkStates_new(structures[e])]
    /\ players \in {<<NearChunk(LiveWidth)>>, <<AwayChunk(LiveWidth)>>}
    /\ needs_generated = <<>>
    /\ commands = NoCommands
    /\ generate_events = <<>>
    /\ generating = <<>>
    /\ request_events = <<>>
    /\ bouncer_events = <<>>
    /\ sent_messages = <<>>
    /\ chunk_init_events = <<>>
    /\ ran = {}
    /\ client_requests = <<>>
    /\ tasks_spawned = <<>>
    /\ needs_loaded \in SavedChunks
    /\ needs_populated = <<>>
    /\ call = NoCall

StoreNext == UnloadTick \/ Worker \/ UnloadClient \/ SysLoadChunk

StoreSpec == StoreInit /\ [][StoreNext]_vars

----------------------------------------------------------------------------
(* The schedule with two structures that may be despawned while tasks run *)

\* the width of each of the two structures, in chunks
GoneWidth == 2

\* the most tasks that run when the schedule starts
GoneTasks == 2

\* the generation events for the chunks of the two structures
GoneEvents ==
    {GenerateChunkEvent(<<x, 0, 0>>, e) :
        x \in 0..(GoneWidth - 1), e \in {PlanetEntity, MoonEntity}}

\* the sequences of different events up to GoneTasks long
GoneEventSeqs ==
    {q \in UNION {[1..n -> GoneEvents] : n \in 0..GoneTasks} :
        \A i \in DOMAIN q, j \in DOMAIN q : i # j => q[i] # q[j]}

\* generate_planet has started tasks for some chunks of the two structures
GoneInit ==
    /\ \E events \in GoneEventSeqs :
       \E fresh \in {[e \in {PlanetEntity, MoonEntity} |-> Structure_new(GoneWidth, 1, 1)]} :
       \E w \in {generate_planet(
                    [structures |-> fresh,
                     chunk_states |-> [e \in DOMAIN fresh |-> ChunkStates_new(fresh[e])],
                     generating |-> <<>>, spawned |-> <<>>],
                    events)} :
          /\ structures = w.structures
          /\ chunk_states = w.chunk_states
          /\ generating = w.generating
          /\ tasks_spawned = w.spawned
    /\ players = <<>>
    /\ needs_generated = <<>>
    /\ commands = NoCommands
    /\ generate_events = <<>>
    /\ request_events = <<>>
    /\ bouncer_events = <<>>
    /\ sent_messages = <<>>
    /\ chunk_init_events = <<>>
    /\ ran = {}
    /\ client_requests = <<>>
    /\ needs_loaded = <<>>
    /\ needs_populated = <<>>
    /\ call = NoCall

GoneNext == Tick \/ Worker \/ Despawn

GoneSpec == GoneInit /\ [][GoneNext]_vars

----------------------------------------------------------------------------
(* Structure::new followed by calls of Structure::set_chunk *)

\* the largest edge of the structure, in chunks
StructSide == 2

\* the most calls of set_chunk
StructWrites == 2

\* Structure::new for any dimensions
StructInit ==
    /\ \E width \in 1..StructSide, height \in 1..StructSide, length \in 1..StructSide :
          structures = [e \in {PlanetEntity} |-> Structure_new(width, height, length)]
    /\ chunk_states = [e \in {PlanetEntity} |-> ChunkStates_new(structures[e])]
    /\ players = <<>>
    /\ needs_generated = <<>>
    /\ commands = NoCommands
    /\ generate_events = <<>>
    /\ generating = <<>>
    /\ request_events = <<>>
    /\ bouncer_events = <<>>
    /\ sent_messages = <<>>
    /\ chunk_init_events = <<>>
    /\ ran = {}
    /\ client_requests = <<>>
    /\ tasks_spawned = <<>>
    /\ needs_loaded = <<>>
    /\ needs_populated = <<>>
    /\ call = [fn |-> "set_chunk", chunk |-> <<>>, writes |-> 0]

\* structure.set_chunk(chunk) with a fresh or a filled chunk of a coordinate
\* of the structure
StructSetChunk ==
    /\ call.fn = "set_chunk"
    /\ call.writes < StructWrites
    /\ \E c \in ChunkCoordsOf(structures[PlanetEntity]) :
       \E chunk \in {Chunk_new(c[1], c[2], c[3]), Populate(Chunk_new(c[1], c[2], c[3]))} :
          /\ structures' = [structures EXCEPT ![PlanetEntity] = set_chunk(@, chunk)]
          /\ chunk_states' = [chunk_states EXCEPT ![PlanetEntity] =
                                 state_after_set_chunk(structures[PlanetEntity], @, chunk)]
          /\ call' = [call EXCEPT !.chunk = <<chunk>>, !.writes = @ + 1]
    /\ UNCHANGED <<players, needs_generated, commands, generate_events, generating,
                   request_events, bouncer_events, sent_messages, chunk_init_events,
                   ran, client_requests, tasks_spawned, needs_loaded, needs_populated>>

StructNext == StructSetChunk

StructSpec == StructInit /\ [][StructNext]_vars

----------------------------------------------------------------------------
(* array_utils on machine integers *)

\* the number of bits of usize in the model (64 on the server's targets)
UsizeBits == 3

usize_MAX == 2 ^ UsizeBits - 1

usize == 0..usize_MAX

\* the outcome of usize arithmetic whose exact intermediate results are steps
\* and whose exact result is total: with overflow checks (debug builds) a step
\* beyond usize::MAX panics, without them (release builds) the result wraps.
\* <<v>> is the value v, <<>> a panic
usize_arith(steps, total, overflow_checks) ==
    IF \A i \in DOMAIN steps : steps[i] <= usize_MAX THEN <<total>>
    ELSE IF overflow_checks THEN <<>>
    ELSE <<total % (usize_MAX + 1)>>

\* faulty variant of the model: the row is scaled by the height
flatten_usize_by_height(x, y, z, width, height, overflow_checks) ==
    usize_arith(<<z * width, z * width * height, y * height,
                  z * width * height + y * height,
                  z * width * height + y * height + x>>,
                z * width * height + y * height + x, overflow_checks)

\* flatten on usize: z * width * height + y * width + x
flatten_usize(x, y, z, width, height, overflow_checks) ==
    usize_arith(<<z * width, z * width * height, y * width,
                  z * width * height + y * width,
                  z * width * height + y * width + x>>,
                z * width * height + y * width + x, overflow_checks)

\* faulty variant of the model: the row is found by dividing by the height
expand_usize_by_height(index, width, height, overflow_checks) ==
    LET whs == usize_arith(<<width * height>>, width * height, overflow_checks)
    IN  IF whs = <<>> \/ height = 0 THEN <<>>
        ELSE LET wh == whs[1] IN
             IF wh = 0 THEN <<>>
             ELSE LET z == index \div wh
                      y == (index - z * wh) \div height
                      x == (index - z * wh) % width
                  IN  <<(<<x, y, z>>)>>

\* expand on usize: wh = width * height may overflow; a division by zero
\* panics in every build; the subtractions cannot go below zero
expand_usize(index, width, height, overflow_checks) ==
    LET whs == usize_arith(<<width * height>>, width * height, overflow_checks)
    IN  IF whs = <<>> \/ width = 0 THEN <<>>
        ELSE LET wh == whs[1] IN
             IF wh = 0 THEN <<>>
             ELSE LET z == index \div wh
                      y == (index - z * wh) \div width
                      x == (index - z * wh) - y * width
                  IN  <<(<<x, y, z>>)>>

\* a caller holds the coordinates of a cell of a grid of width x height cells
\* (any layer z) and calls flatten, or holds an index and calls expand
ArrayInit ==
    /\ structures = <<>>
    /\ chunk_states = <<>>
    /\ players = <<>>
    /\ needs_generated = <<>>
    /\ commands = NoCommands
    /\ generate_events = <<>>
    /\ generating = <<>>
    /\ request_events = <<>>
    /\ bouncer_events = <<>>
    /\ sent_messages = <<>>
    /\ chunk_init_events = <<>>
    /\ ran = {}
    /\ client_requests = <<>>
    /\ tasks_spawned = <<>>
    /\ needs_loaded = <<>>
    /\ needs_populated = <<>>
    /\ \E width \in usize \ {0}, height \in usize \ {0}, overflow_checks \in BOOLEAN :
          \/ \E x \in 0..(width - 1), y \in 0..(height - 1), z \in usize :
                call = [fn |-> "flatten", x |-> x, y |-> y, z |-> z,
                        width |-> width, height |-> height,
                        overflow_checks |-> overflow_checks,
                        first |-> TRUE, done |-> FALSE, out |-> <<>>]
          \/ \E index \in usize :
                call = [fn |-> "expand", index |-> index,
                        width |-> width, height |-> height,
                        overflow_checks |-> overflow_checks,
                        first |-> TRUE, done |-> FALSE, out |-> <<>>]

\* the function returns or panics
ArrayReturn ==
    /\ call.fn \in {"flatten", "expand"}
    /\ ~call.done
    /\ call' = [call EXCEPT
                  !.done = TRUE,
                  !.out = IF call.fn = "flatten"
                          THEN flatten_usize(call.x, call.y, call.z, call.width,
                                             call.height, call.overflow_checks)
                          ELSE expand_usize(call.index, call.width, call.height,
                                            call.overflow_checks)]
    /\ UNCHANGED <<structures, chunk_states, players, needs_generated, commands,
                   generate_events, generating, request_events, bouncer_events,
                   sent_messages, chunk_init_events, ran, client_requests,
                   tasks_spawned, needs_loaded, needs_populated>>

\* the caller hands what the first function returned to the other one, with
\* the same width and height; given is what the first function was called with
ArrayBack ==
    /\ call.fn \in {"flatten", "expand"}
    /\ call.first /\ call.done /\ call.out # <<>>
    /\ call' = IF call.fn = "flatten"
               THEN [fn |-> "expand", index |-> call.out[1],
                     width |-> call.width, height |-> call.height,
                     overflow_checks |-> call.overflow_checks,
                     first |-> FALSE, done |-> FALSE, out |-> <<>>,
                     given |-> <<call.x, call.y, call.z>>]
               ELSE [fn |-> "flatten", x |-> call.out[1][1], y |-> call.out[1][2],
                     z |-> call.out[1][3],
                     width |-> call.width, height |-> call.height,
                     overflow_checks |-> call.overflow_checks,
                     first |-> FALSE, done |-> FALSE, out |-> <<>>,
                     given |-> call.index]
    /\ UNCHANGED <<structures, chunk_states, players, needs_generated, commands,
                   generate_events, generating, request_events, bouncer_events,
                   sent_messages, chunk_init_events, ran, client_requests,
                   tasks_spawned, needs_loaded, needs_populated>>

ArrayNext == ArrayReturn \/ ArrayBack

ArraySpec == ArrayInit /\ [][ArrayNext]_vars

----------------------------------------------------------------------------
(* planet::persistence::populate_chunks *)

\* width in chunks of the planet whose chunks are read from disk
PopWidth == 2

\* what fs::read of a chunk's save file gives: Err (no file), an empty vector,
\* bytes that do not deserialize to SerializedData, or SerializedData whose
\* "cosmos:chunk" entry is sd (<<chunk>> or <<>>, as in NeedsLoaded)
NoFile == [kind |-> "missing", sd |-> <<>>]

EmptyFile == [kind |-> "empty", sd |-> <<>>]

CorruptFile == [kind |-> "corrupt", sd |-> <<>>]

SavedFile(sd) == [kind |-> "data", sd |-> sd]

\* a chunk entity with ChunkNeedsPopulated, the file at its save path, and the
\* command populate_chunks has queued for the entity in this tick
ChunkNeedsPopulated(coords, entity, file) ==
    [chunk_coords |-> coords, structure_entity |-> entity, file |-> file,
     command |-> "none"]

\* faulty variant of the model: a chunk that was read is also handed to the
\* generation path
populate_one_both(w, i, needs) ==
    IF needs.file.kind = "data"
    THEN [w EXCEPT !.entries[i].command = "load",
                   !.spawn = Append(@, NeedsGenerated(needs.chunk_coords,
                                                      needs.structure_entity))]
    ELSE [w EXCEPT !.entries[i].command = "generate"]

\* the body of the loop of populate_chunks for one entity
populate_one(w, i, needs) ==
    IF needs.structure_entity \notin DOMAIN w.structures
    THEN [w EXCEPT !.entries[i].command = "remove"]
    ELSE IF needs.file.kind = "missing"
    THEN [w EXCEPT !.entries[i].command = "generate"]
    ELSE IF needs.file.kind = "empty"
    THEN w
    ELSE IF needs.file.kind = "corrupt"
    THEN [w EXCEPT !.panicked = TRUE]
    ELSE [w EXCEPT !.entries[i].command = "load"]

RECURSIVE populate_chunks(_, _)
\* the loop over the query from entity i on; a panic ends it
populate_chunks(w, i) ==
    IF i > Len(w.entries) \/ w.panicked THEN w
    ELSE populate_chunks(populate_one(w, i, w.entries[i]), i + 1)

SysPopulateChunks ==
    /\ CanRun("populate_chunks")
    /\ \E w \in {populate_chunks([structures |-> structures,
                                   entries |-> needs_populated,
                                   spawn |-> commands.spawn,
                                   panicked |-> FALSE], 1)} :
          /\ needs_populated' = w.entries
          /\ commands' = [commands EXCEPT !.spawn = w.spawn]
          /\ ran' = ran \cup (IF w.panicked THEN {"populate_chunks", "panic"}
                                ELSE {"populate_chunks"})
    /\ UNCHANGED <<structures, chunk_states, players, needs_generated,
                   generate_events, generating, request_events, bouncer_events,
                   sent_messages, chunk_init_events, client_requests,
                   tasks_spawned, needs_loaded, call>>

\* the entities whose queued command is cmd, in the order of the query
WithCommand(entries, cmd) == SelectSeq(entries, LAMBDA n : n.command = cmd)

RECURSIVE FlagsOf(_)
\* the ChunkNeedsGenerated components inserted for the entities
FlagsOf(entries) ==
    IF entries = <<>> THEN <<>>
    ELSE <<NeedsGenerated(Head(entries).chunk_coords, Head(entries).structure_entity)>>
         \o FlagsOf(Tail(entries))

RECURSIVE LoadsOf(_)
\* the SerializedData, NeedsLoaded and ChunkEntity inserted for the entities
LoadsOf(entries) ==
    IF entries = <<>> THEN <<>>
    ELSE <<NeedsLoaded(Head(entries).structure_entity, Head(entries).file.sd)>>
         \o LoadsOf(Tail(entries))

PopSystems == Systems \cup {"populate_chunks"}

\* the end of a tick with populate_chunks: its inserts and removes are applied
\* with the other commands
PopEndTick ==
    /\ ran = PopSystems
    /\ ran' = {}
    /\ needs_generated' = ApplyCommands(needs_generated, commands)
                             \o FlagsOf(WithCommand(needs_populated, "generate"))
    /\ needs_loaded' = needs_loaded \o LoadsOf(WithCommand(needs_populated, "load"))
    /\ needs_populated' = WithCommand(needs_populated, "none")
    /\ commands' = NoCommands
    /\ UNCHANGED <<structures, chunk_states, players, generate_events, generating,
                   request_events, bouncer_events, sent_messages, chunk_init_events,
                   client_requests, tasks_spawned, call>>

\* the save of a chunk whose file was found empty completes
SaveCompletes ==
    /\ \E i \in DOMAIN needs_populated :
          /\ needs_populated[i].file = EmptyFile
          /\ \E c \in {needs_populated[i].chunk_coords} :
                needs_populated' =
                    [needs_populated EXCEPT ![i].file =
                        SavedFile(<<Populate(Chunk_new(c[1], c[2], c[3]))>>)]
    /\ UNCHANGED <<structures, chunk_states, players, needs_generated, commands,
                   generate_events, generating, request_events, bouncer_events,
                   sent_messages, chunk_init_events, ran, client_requests,
                   tasks_spawned, needs_loaded, call>>

\* the files a chunk at coords may have
FilesOf(coords) ==
    {NoFile, EmptyFile, CorruptFile, SavedFile(<<>>),
     SavedFile(<<Populate(Chunk_new(coords[1], coords[2], coords[3]))>>)}

\* every chunk of a row of PopWidth chunks is being loaded and its entity
\* carries ChunkNeedsPopulated
PopInit ==
    /\ structures = [e \in {PlanetEntity} |-> Structure_new(PopWidth, 1, 1)]
    /\ chunk_states = [e \in {PlanetEntity} |-> [i \in 1..PopWidth |-> "Loading"]]
    /\ players = <<>>
    /\ needs_generated = <<>>
    /\ commands = NoCommands
    /\ generate_events = <<>>
    /\ generating = <<>>
    /\ request_events = <<>>
    /\ bouncer_events = <<>>
    /\ sent_messages = <<>>
    /\ chunk_init_events = <<>>
    /\ ran = {}
    /\ client_requests = <<>>
    /\ tasks_spawned = <<>>
    /\ needs_loaded = <<>>
    /\ \E files \in [1..PopWidth -> FilesOf(<<0, 0, 0>>)] :
          needs_populated =
              [i \in 1..PopWidth |->
                  ChunkNeedsPopulated(<<i - 1, 0, 0>>, PlanetEntity,
                      IF files[i].sd = <<>> THEN files[i]
                      ELSE SavedFile(<<Populate(Chunk_new(i - 1, 0, 0))>>))]
    /\ call = NoCall

PopNext ==
    \/ SysPopulateChunks
    \/ SysGenerateChunksNearPlayers
    \/ SysGetRequestedChunk
    \/ SysBounceEvents
    \/ SysCheckNeedsGenerated
    \/ SysGeneratePlanet
    \/ SysNotifyWhenDoneGenerating
    \/ PopEndTick
    \/ Worker
    \/ SysLoadChunk
    \/ SaveCompletes

PopSpec == PopInit /\ [][PopNext]_vars

----------------------------------------------------------------------------
(* biosphere_generation: the terrain of one chunk *)

\* the edge of a chunk in blocks (32 in the repository)
CHUNK_DIMENSIONS == 2

\* the edge of the planet in chunks
TerrainSide == 6

BlockFaces == {"Top", "Bottom", "Front", "Back", "Right", "Left"}

\* the axis a face looks along: 1 is x, 2 is y, 3 is z
AxisOf(face) ==
    CASE face \in {"Right", "Left"} -> 1
      [] face \in {"Top", "Bottom"} -> 2
      [] face \in {"Front", "Back"} -> 3

\* the height of a coordinate along the up axis of a face: the coordinate
\* itself for Right, Top and Front, s_dimensions minus it for the others
HeightAlong(face, s_dimensions, coordinate) ==
    IF face \in {"Right", "Top", "Front"} THEN coordinate
    ELSE s_dimensions - coordinate

\* where the noise is sampled on a face: middle_air_start on the axis of
\* Right, Top and Front, s_dimensions - middle_air_start on that of the others
SeedPlane(face, s_dimensions, middle_air_start) ==
    IF face \in {"Right", "Top", "Front"} THEN middle_air_start
    ELSE s_dimensions - middle_air_start

Indices == 0..(CHUNK_DIMENSIONS - 1)

\* the block coordinates within a chunk
Voxels == Indices \X Indices \X Indices

\* a block of a chunk that was never set, and one set by set_block_at
Air == [block |-> "air", up |-> "none"]

Block(block, up) == [block |-> block, up |-> up]

\* get_top_height: the surface height above a seed coordinate.  The sum of the
\* noise octaves and its flattening are a field over the seed coordinates; the
\* arguments of a call hold the field as noise
get_top_height(c, seed) == c.noise[seed]

\* do_face: the seed coordinates of column (i, j)
FaceSeed(c, i, j) ==
    LET plane == SeedPlane(c.up, c.s_dimensions, c.middle_air_start)
    IN  CASE c.up \in {"Top", "Bottom"} -> <<c.s[1] + i, plane, c.s[3] + j>>
          [] c.up \in {"Front", "Back"} -> <<c.s[1] + i, c.s[2] + j, plane>>
          [] c.up \in {"Right", "Left"} -> <<plane, c.s[2] + i, c.s[3] + j>>

\* do_face: the block (x, y, z) of the chunk that loop indices (i, j, height)
\* stand for
FaceVoxel(up, i, j, height) ==
    CASE up \in {"Top", "Bottom"} -> <<i, height, j>>
      [] up \in {"Front", "Back"} -> <<i, j, height>>
      [] up \in {"Right", "Left"} -> <<height, i, j>>

\* do_face: actual_height of the blocks at loop index height
FaceHeight(c, height) ==
    HeightAlong(c.up, c.s_dimensions, c.s[AxisOf(c.up)] + height)

\* faulty variant of the model: the block at the surface is left empty
do_face_below(c) ==
    [v \in Voxels |->
        LET l == CHOOSE l \in Voxels : FaceVoxel(c.up, l[1], l[2], l[3]) = v
            top_height == get_top_height(c, FaceSeed(c, l[1], l[2]))
            actual_height == FaceHeight(c, l[3])
        IN  IF actual_height < top_height
            THEN Block(face_block(c.block_ranges, top_height - actual_height), c.up)
            ELSE Air]

\* do_face: the chunk after the three loops; every block is visited once
do_face(c) ==
    [v \in Voxels |->
        LET l == CHOOSE l \in Voxels : FaceVoxel(c.up, l[1], l[2], l[3]) = v
            top_height == get_top_height(c, FaceSeed(c, l[1], l[2]))
            actual_height == FaceHeight(c, l[3])
        IN  IF actual_height <= top_height
            THEN Block(face_block(c.block_ranges, top_height - actual_height), c.up)
            ELSE Air]

\* a seed without its coordinate along axis flat
NoiseKey(seed, flat) == [seed EXCEPT ![flat] = 0]

\* the field over seeds that does not change along axis flat and has the
\* values of profile
NoiseField(seeds, flat, profile) ==
    [seed \in seeds |-> profile[NoiseKey(seed, flat)]]

\* the profiles of such fields with values in heights
NoiseProfiles(seeds, flat, heights) ==
    [{NoiseKey(seed, flat) : seed \in seeds} -> heights]

\* the heights (of type usize) from one below to one above those of the
\* chunk's blocks
HeightsAround(face, s_dimensions, start) ==
    LET hs == {HeightAlong(face, s_dimensions, start + i) : i \in Indices}
    IN  ({h - 1 : h \in hs} \cup hs \cup {h + 1 : h \in hs}) \cap Nat

\* the chunk offsets along one axis
Offsets == {CHUNK_DIMENSIONS * n : n \in 0..(TerrainSide - 1)}

\* the arguments of generate_planet's calls that do not depend on the chunk
TerrainArgs ==
    [s_dimensions |-> CHUNK_DIMENSIONS * TerrainSide,
     middle_air_start |-> CHUNK_DIMENSIONS * TerrainSide - CHUNK_DIMENSIONS * 5,
     block_ranges |-> make_block_ranges]

\* a call of do_face for a chunk at offset start along the face, without noise
FaceCall(up, start) ==
    [fn |-> "do_face", up |-> up,
     s |-> [a \in 1..3 |-> IF a = AxisOf(up) THEN start ELSE 0],
     s_dimensions |-> TerrainArgs.s_dimensions,
     middle_air_start |-> TerrainArgs.middle_air_start,
     block_ranges |-> TerrainArgs.block_ranges, noise |-> <<>>,
     done |-> FALSE, panicked |-> FALSE, chunk |-> <<>>]

FaceSeeds(c) == {FaceSeed(c, i, j) : i \in Indices, j \in Indices}

\* the axis of the rows i of do_face
FaceRowAxis(up) == IF AxisOf(up) = 1 THEN 2 ELSE 1

\* the calls of do_face: any face, a chunk at any height along it, a noise
\* field that is the same in every row i
FaceInit ==
    /\ structures = <<>>
    /\ chunk_states = <<>>
    /\ players = <<>>
    /\ needs_generated = <<>>
    /\ commands = NoCommands
    /\ generate_events = <<>>
    /\ generating = <<>>
    /\ request_events = <<>>
    /\ bouncer_events = <<>>
    /\ sent_messages = <<>>
    /\ chunk_init_events = <<>>
    /\ ran = {}
    /\ client_requests = <<>>
    /\ tasks_spawned = <<>>
    /\ needs_loaded = <<>>
    /\ needs_populated = <<>>
    /\ \E up \in BlockFaces, start \in Offsets :
          \E c \in {FaceCall(up, start)} :
             \E profile \in NoiseProfiles(FaceSeeds(c), FaceRowAxis(up),
                                          HeightsAround(up, c.s_dimensions, start)) :
                call = [c EXCEPT !.noise =
                           NoiseField(FaceSeeds(c), FaceRowAxis(up), profile)]

\* do_face returns
FaceReturn ==
    /\ call.fn = "do_face"
    /\ ~call.done
    /\ call' = [call EXCEPT !.done = TRUE, !.chunk = do_face(call)]
    /\ UNCHANGED <<structures, chunk_states, players, needs_generated, commands,
                   generate_events, generating, request_events, bouncer_events,
                   sent_messages, chunk_init_events, ran, client_requests,
                   tasks_spawned, needs_loaded, needs_populated>>

FaceNext == FaceReturn

FaceSpec == FaceInit /\ [][FaceNext]_vars

----------------------------------------------------------------------------
(* biosphere_generation::do_edge *)

Max(a, b) == IF a >= b THEN a ELSE b

Min(a, b) == IF a <= b THEN a ELSE b

\* Planet::get_planet_face_without_structure: the face of the axis along
\* which the block is farthest from the centre of the planet
get_planet_face_without_structure(bx, by, bz, s_width, s_height, s_length) ==
    LET dx == 2 * bx + 1 - s_width
        dy == 2 * by + 1 - s_height
        dz == 2 * bz + 1 - s_length
        ax == IF dx < 0 THEN 0 - dx ELSE dx
        ay == IF dy < 0 THEN 0 - dy ELSE dy
        az == IF dz < 0 THEN 0 - dz ELSE dz
    IN  IF ay >= ax /\ ay >= az THEN (IF dy >= 0 THEN "Top" ELSE "Bottom")
        ELSE IF ax >= az THEN (IF dx >= 0 THEN "Right" ELSE "Left")
        ELSE (IF dz >= 0 THEN "Front" ELSE "Back")

\* the seed coordinates of face up at index n along the axis of the other
\* face, in row i: (s + i) on every axis, then the plane of up, then the index
EdgeSeed(c, up, other, i, n) ==
    LET on_plane == [[a \in 1..3 |-> c.s[a] + i] EXCEPT
                        ![AxisOf(up)] = SeedPlane(up, c.s_dimensions, c.middle_air_start)]
    IN  [on_plane EXCEPT ![AxisOf(other)] = c.s[AxisOf(other)] + n]

\* faulty variant of the model: the top heights of j_up are kept unmodified
edge_j_top_unmodified(c) ==
    [i \in Indices |-> [k \in Indices |->
        get_top_height(c, EdgeSeed(c, c.j_up, c.k_up, i, k))]]

\* the first loop of do_edge: the top heights of j_up, not below the 45
edge_j_top(c) ==
    [i \in Indices |-> [k \in Indices |->
        LET seed == EdgeSeed(c, c.j_up, c.k_up, i, k)
            dim_45 == HeightAlong(c.k_up, c.s_dimensions, seed[AxisOf(c.k_up)])
        IN  Max(get_top_height(c, seed), dim_45)]]

\* the block (x, y, z) of the chunk that loop indices (i, j, k) stand for
EdgeVoxel(c, i, j, k) ==
    [[[a \in 1..3 |-> i] EXCEPT ![AxisOf(c.j_up)] = j] EXCEPT ![AxisOf(c.k_up)] = k]

\* faulty variant of the model: a block at the top of both faces is filled
EdgeFill_both_tops(j_height, j_top, k_height, k_top) ==
    j_height <= j_top /\ k_height <= k_top

\* the condition under which do_edge sets a block
EdgeFill(j_height, j_top, k_height, k_top) ==
    LET num_top == (IF j_height = j_top THEN 1 ELSE 0)
                     + (IF k_height = k_top THEN 1 ELSE 0)
    IN  j_height <= j_top /\ k_height <= k_top /\ num_top <= 1

RECURSIVE edge_k(_, _, _, _, _, _, _, _)
\* the loop over k from k on, for row i and index j
edge_k(c, w, j_tops, i, j, k, k_top, j_height) ==
    IF k = CHUNK_DIMENSIONS THEN w
    ELSE LET j_top == Min(j_tops[i][k], w.first_both_45)
             v == EdgeVoxel(c, i, j, k)
             k_height == HeightAlong(c.k_up, c.s_dimensions,
                                     c.s[AxisOf(c.k_up)] + v[AxisOf(c.k_up)])
             block_up == IF k_height = k_top THEN c.k_up
                         ELSE IF j_height = j_top THEN c.j_up
                         ELSE get_planet_face_without_structure(
                                  c.s[1] + v[1], c.s[2] + v[2], c.s[3] + v[3],
                                  c.s_dimensions, c.s_dimensions, c.s_dimensions)
             block == edge_block(c.block_ranges, j_top - j_height, k_top - k_height)
         IN  edge_k(c,
                    IF EdgeFill(j_height, j_top, k_height, k_top)
                    THEN [w EXCEPT !.chunk[v] = Block(block, block_up)]
                    ELSE w,
                    j_tops, i, j, k + 1, k_top, j_height)

RECURSIVE edge_j_shared_height(_, _, _, _, _)
\* faulty variant of the model: first_both_45 is set where both top heights
\* are at the height of index j in the structure
edge_j_shared_height(c, w, j_tops, i, j) ==
    IF j = CHUNK_DIMENSIONS \/ w.panicked THEN w
    ELSE LET seed == EdgeSeed(c, c.k_up, c.j_up, i, j)
             j_height == HeightAlong(c.j_up, c.s_dimensions, seed[AxisOf(c.j_up)])
         IN  IF j_height > w.first_both_45 THEN [w EXCEPT !.panicked = TRUE]
             ELSE LET k_top == Min(Max(get_top_height(c, seed), j_height),
                                   w.first_both_45)
                      first_both_45 ==
                          IF /\ j_tops[i][j] = j_height
                             /\ k_top = j_height
                             /\ w.first_both_45 = c.s_dimensions
                          THEN k_top
                          ELSE w.first_both_45
                  IN  edge_j_shared_height(c,
                             edge_k(c,
                                    [w EXCEPT !.first_both_45 = first_both_45,
                                              !.tops[i] = Append(@,
                                                  [first_both_45 |-> first_both_45,
                                                   k_top |-> k_top])],
                                    j_tops, i, j, 0, k_top, j_height),
                             j_tops, i, j + 1)

RECURSIVE edge_j(_, _, _, _, _)
\* the loop over j from j on, for row i; usize::clamp panics when its minimum
\* is above its maximum.  tops keeps, per row, the first_both_45 and the k_top
\* each index j went on with
edge_j(c, w, j_tops, i, j) ==
    IF j = CHUNK_DIMENSIONS \/ w.panicked THEN w
    ELSE LET seed == EdgeSeed(c, c.k_up, c.j_up, i, j)
             j_height == HeightAlong(c.j_up, c.s_dimensions, seed[AxisOf(c.j_up)])
         IN  IF j_height > w.first_both_45 THEN [w EXCEPT !.panicked = TRUE]
             ELSE LET k_top == Min(Max(get_top_height(c, seed), j_height),
                                   w.first_both_45)
                      first_both_45 ==
                          IF /\ j_tops[i][j] = j
                             /\ k_top = j
                             /\ w.first_both_45 = c.s_dimensions
                          THEN k_top
                          ELSE w.first_both_45
                  IN  edge_j(c,
                             edge_k(c,
                                    [w EXCEPT !.first_both_45 = first_both_45,
                                              !.tops[i] = Append(@,
                                                  [first_both_45 |-> first_both_45,
                                                   k_top |-> k_top])],
                                    j_tops, i, j, 0, k_top, j_height),
                             j_tops, i, j + 1)

RECURSIVE edge_i(_, _, _, _)
\* the loop over the rows from i on
edge_i(c, w, j_tops, i) ==
    IF i = CHUNK_DIMENSIONS \/ w.panicked THEN w
    ELSE edge_i(c, edge_j(c, [w EXCEPT !.first_both_45 = c.s_dimensions], j_tops, i, 0),
                j_tops, i + 1)

\* do_edge: the chunk after the loops, or a panic
do_edge(c) ==
    edge_i(c,
           [chunk |-> [v \in Voxels |-> Air], first_both_45 |-> c.s_dimensions,
            panicked |-> FALSE, tops |-> [i \in Indices |-> <<>>]],
           edge_j_top(c), 0)

\* a chunk offset lies on the side of a face
OnSide(face, s_dimensions, start) ==
    IF face \in {"Right", "Top", "Front"} THEN 2 * start >= s_dimensions
    ELSE 2 * (start + CHUNK_DIMENSIONS) <= s_dimensions

\* the 45 between two faces crosses the chunk at offsets (j_start, k_start):
\* for two faces of the same direction the blocks with equal coordinates, for
\* opposite directions those whose coordinates add up to s_dimensions - 1
OnEdge(j_up, k_up, s_dimensions, j_start, k_start) ==
    /\ OnSide(j_up, s_dimensions, j_start)
    /\ OnSide(k_up, s_dimensions, k_start)
    /\ IF (j_up \in {"Right", "Top", "Front"}) = (k_up \in {"Right", "Top", "Front"})
       THEN j_start = k_start
       ELSE j_start + k_start = s_dimensions - CHUNK_DIMENSIONS

\* a call of do_edge for a chunk at offsets o along the two faces and half way
\* along their edge, without noise
EdgeCall(j_up, k_up, o) ==
    [fn |-> "do_edge", j_up |-> j_up, k_up |-> k_up,
     s |-> [a \in 1..3 |->
               IF a = AxisOf(j_up) THEN o[1]
               ELSE IF a = AxisOf(k_up) THEN o[2]
               ELSE CHUNK_DIMENSIONS * (TerrainSide \div 2)],
     s_dimensions |-> TerrainArgs.s_dimensions,
     middle_air_start |-> TerrainArgs.middle_air_start,
     block_ranges |-> TerrainArgs.block_ranges, noise |-> <<>>,
     done |-> FALSE, panicked |-> FALSE, chunk |-> <<>>,
     tops |-> <<>>, first |-> TRUE, swapped |-> FALSE, earlier |-> <<>>]

EdgeSeeds(c) ==
    {EdgeSeed(c, c.j_up, c.k_up, i, n) : i \in Indices, n \in Indices}
      \cup {EdgeSeed(c, c.k_up, c.j_up, i, n) : i \in Indices, n \in Indices}

\* the axis of the rows i of do_edge
EdgeRowAxis(c) == CHOOSE a \in 1..3 : a \notin {AxisOf(c.j_up), AxisOf(c.k_up)}

\* the calls of do_edge: two faces of different axes in either order, a chunk
\* on their edge, a noise field that is the same in every row i
EdgeInit ==
    /\ structures = <<>>
    /\ chunk_states = <<>>
    /\ players = <<>>
    /\ needs_generated = <<>>
    /\ commands = NoCommands
    /\ generate_events = <<>>
    /\ generating = <<>>
    /\ request_events = <<>>
    /\ bouncer_events = <<>>
    /\ sent_messages = <<>>
    /\ chunk_init_events = <<>>
    /\ ran = {}
    /\ client_requests = <<>>
    /\ tasks_spawned = <<>>
    /\ needs_loaded = <<>>
    /\ needs_populated = <<>>
    /\ \E j_up \in BlockFaces, k_up \in BlockFaces, o \in Offsets \X Offsets :
          /\ AxisOf(j_up) # AxisOf(k_up)
          /\ OnEdge(j_up, k_up, TerrainArgs.s_dimensions, o[1], o[2])
          /\ \E c \in {EdgeCall(j_up, k_up, o)} :
                \E profile \in NoiseProfiles(EdgeSeeds(c), EdgeRowAxis(c),
                                  HeightsAround(j_up, c.s_dimensions, o[1])
                                    \cup HeightsAround(k_up, c.s_dimensions, o[2])) :
                   call = [c EXCEPT !.noise =
                              NoiseField(EdgeSeeds(c), EdgeRowAxis(c), profile)]

\* do_edge returns or panics
EdgeReturn ==
    /\ call.fn = "do_edge"
    /\ ~call.done
    /\ \E w \in {do_edge(call)} :
          call' = [call EXCEPT !.done = TRUE, !.panicked = w.panicked,
                               !.chunk = w.chunk, !.tops = w.tops]
    /\ UNCHANGED <<structures, chunk_states, players, needs_generated, commands,
                   generate_events, generating, request_events, bouncer_events,
                   sent_messages, chunk_init_events, ran, client_requests,
                   tasks_spawned, needs_loaded, needs_populated>>

\* generate_planet runs for the same chunk once more: the two faces come out
\* of the iterator of planet_faces, a HashSet, in either order
EdgeAgain ==
    /\ call.fn = "do_edge"
    /\ call.done /\ call.first /\ ~call.panicked
    /\ \E f \in {<<call.j_up, call.k_up>>, <<call.k_up, call.j_up>>} :
          call' = [call EXCEPT !.j_up = f[1], !.k_up = f[2],
                               !.done = FALSE, !.chunk = <<>>, !.tops = <<>>,
                               !.first = FALSE, !.swapped = (f[1] # call.j_up),
                               !.earlier = call.chunk]
    /\ UNCHANGED <<structures, chunk_states, players, needs_generated, commands,
                   generate_events, generating, request_events, bouncer_events,
                   sent_messages, chunk_init_events, ran, client_requests,
                   tasks_spawned, needs_loaded, needs_populated>>

EdgeNext == EdgeReturn \/ EdgeAgain

EdgeSpec == EdgeInit /\ [][EdgeNext]_vars

----------------------------------------------------------------------------
(* biosphere_generation::do_corner *)

\* the height of face other at a seed coordinate
Corner45(c, other, seed) ==
    HeightAlong(other, c.s_dimensions, seed[AxisOf(other)])

\* the seed coordinates of the face of axis a for the offsets m, n along the
\* two other axes, in the order x, y, z
CornerSeed(c, a, m, n) ==
    LET plane(up) == SeedPlane(up, c.s_dimensions, c.middle_air_start)
    IN  CASE a = 1 -> <<plane(c.x_up), c.s[2] + m, c.s[3] + n>>
          [] a = 2 -> <<c.s[1] + m, plane(c.y_up), c.s[3] + n>>
          [] a = 3 -> <<c.s[1] + m, c.s[2] + n, plane(c.z_up)>>

\* the first loop of do_corner: x_top[j][k], not below the 45s of y and z
corner_x_top(c) ==
    [j \in Indices |-> [k \in Indices |->
        LET seed == CornerSeed(c, 1, j, k)
        IN  Max(Max(get_top_height(c, seed), Corner45(c, c.y_up, seed)),
                Corner45(c, c.z_up, seed))]]

\* the second loop of do_corner: y_top[i][k], not below the 45s of x and z
corner_y_top(c) ==
    [i \in Indices |-> [k \in Indices |->
        LET seed == CornerSeed(c, 2, i, k)
        IN  Max(Max(get_top_height(c, seed), Corner45(c, c.x_up, seed)),
                Corner45(c, c.z_up, seed))]]

\* faulty variant of the model: a block at the top of several faces is filled
CornerFill_all_tops(x_height, x_top, y_height, y_top, z_height, z_top) ==
    x_height <= x_top /\ y_height <= y_top /\ z_height <= z_top

\* the condition under which do_corner sets a block
CornerFill(x_height, x_top, y_height, y_top, z_height, z_top) ==
    LET num_top == (IF x_height = x_top THEN 1 ELSE 0)
                     + (IF y_height = y_top THEN 1 ELSE 0)
                     + (IF z_height = z_top THEN 1 ELSE 0)
    IN  /\ x_height <= x_top /\ y_height <= y_top /\ z_height <= z_top
        /\ num_top <= 1

RECURSIVE corner_k(_, _, _, _, _, _, _, _, _, _)
\* the loop over k from k on, for the column (i, j)
corner_k(c, w, x_tops, y_tops, i, j, k, z_top, x_height, y_height) ==
    IF k = CHUNK_DIMENSIONS THEN w
    ELSE LET x_top == Min(x_tops[j][k], w.first_all_45)
             y_top == Min(y_tops[i][k], w.first_all_45)
             z == c.s[3] + k
             z_height == HeightAlong(c.z_up, c.s_dimensions, z)
             block_up == IF z_height = z_top THEN c.z_up
                         ELSE IF y_height = y_top THEN c.y_up
                         ELSE IF x_height = x_top THEN c.x_up
                         ELSE get_planet_face_without_structure(
                                  c.s[1] + i, c.s[2] + j, z,
                                  c.s_dimensions, c.s_dimensions, c.s_dimensions)
             block == corner_block(c.block_ranges, x_top - x_height,
                                   y_top - y_height, z_top - z_height)
         IN  corner_k(c,
                      IF CornerFill(x_height, x_top, y_height, y_top, z_height, z_top)
                      THEN [w EXCEPT !.chunk[<<i, j, k>>] = Block(block, block_up)]
                      ELSE w,
                      x_tops, y_tops, i, j, k + 1, z_top, x_height, y_height)

\* the heights do_corner compares with j when it looks for first_all_45 in
\* column (i, j)
CornerDetect(x_tops, y_tops, z_top, i, j) ==
    [x_top |-> x_tops[i][j], y_top |-> y_tops[i][j], z_top |-> z_top]

RECURSIVE corner_j(_, _, _, _, _, _)
\* the loop over j from j on, for row i.  tops keeps, per row, the
\* first_all_45, the z_top and the heights read for each index j
corner_j(c, w, x_tops, y_tops, i, j) ==
    IF j = CHUNK_DIMENSIONS THEN w
    ELSE LET seed == CornerSeed(c, 3, i, j)
             x_height == Corner45(c, c.x_up, seed)
             y_height == Corner45(c, c.y_up, seed)
             z_top == Min(Max(Max(get_top_height(c, seed), x_height), y_height),
                          w.first_all_45)
             read == CornerDetect(x_tops, y_tops, z_top, i, j)
             first_all_45 ==
                 IF /\ read.x_top = j /\ read.y_top = j /\ read.z_top = j
                    /\ w.first_all_45 = c.s_dimensions
                 THEN z_top
                 ELSE w.first_all_45
         IN  corner_j(c,
                      corner_k(c,
                               [w EXCEPT !.first_all_45 = first_all_45,
                                         !.tops[i] = Append(@,
                                             [first_all_45 |-> first_all_45,
                                              z_top |-> z_top, read |-> read])],
                               x_tops, y_tops, i, j, 0, z_top, x_height, y_height),
                      x_tops, y_tops, i, j + 1)

RECURSIVE corner_i(_, _, _, _, _)
\* the loop over the rows from i on
corner_i(c, w, x_tops, y_tops, i) ==
    IF i = CHUNK_DIMENSIONS THEN w
    ELSE corner_i(c,
                  corner_j(c, [w EXCEPT !.first_all_45 = c.s_dimensions],
                           x_tops, y_tops, i, 0),
                  x_tops, y_tops, i + 1)

\* do_corner: the chunk after the loops
do_corner(c) ==
    corner_i(c,
             [chunk |-> [v \in Voxels |-> Air], first_all_45 |-> c.s_dimensions,
              tops |-> [i \in Indices |-> <<>>]],
             corner_x_top(c), corner_y_top(c), 0)

\* the offset, along face, of the chunk whose blocks are as high as those of
\* the chunk at offset start of a face of positive direction
OffsetFor(face, s_dimensions, start) ==
    IF face \in {"Right", "Top", "Front"} THEN start
    ELSE s_dimensions - CHUNK_DIMENSIONS - start

\* a call of do_corner for the chunk that the three 45s cross at the height
\* of offset start, without noise
CornerCall(x_up, y_up, z_up, start) ==
    [fn |-> "do_corner", x_up |-> x_up, y_up |-> y_up, z_up |-> z_up,
     s |-> <<OffsetFor(x_up, TerrainArgs.s_dimensions, start),
             OffsetFor(y_up, TerrainArgs.s_dimensions, start),
             OffsetFor(z_up, TerrainArgs.s_dimensions, start)>>,
     s_dimensions |-> TerrainArgs.s_dimensions,
     middle_air_start |-> TerrainArgs.middle_air_start,
     block_ranges |-> TerrainArgs.block_ranges, noise |-> <<>>,
     done |-> FALSE, panicked |-> FALSE, chunk |-> <<>>, tops |-> <<>>]

CornerSeeds(c) ==
    {CornerSeed(c, a, m, n) : a \in 1..3, m \in Indices, n \in Indices}

\* the heights from that of the lowest block of the chunk to one above its
\* highest block: a top below the lowest block is raised to it by the 45s
CornerHeights(start) == start..(start + CHUNK_DIMENSIONS)

\* the calls of do_corner: one face of every axis, a chunk on the diagonal of
\* the three faces, a noise field that does not change along x
CornerInit ==
    /\ structures = <<>>
    /\ chunk_states = <<>>
    /\ players = <<>>
    /\ needs_generated = <<>>
    /\ commands = NoCommands
    /\ generate_events = <<>>
    /\ generating = <<>>
    /\ request_events = <<>>
    /\ bouncer_events = <<>>
    /\ sent_messages = <<>>
    /\ chunk_init_events = <<>>
    /\ ran = {}
    /\ client_requests = <<>>
    /\ tasks_spawned = <<>>
    /\ needs_loaded = <<>>
    /\ needs_populated = <<>>
    /\ \E x_up \in {"Right", "Left"}, y_up \in {"Top", "Bottom"},
          z_up \in {"Front", "Back"}, start \in Offsets :
          /\ OnSide("Top", TerrainArgs.s_dimensions, start)
          /\ \E c \in {CornerCall(x_up, y_up, z_up, start)} :
                \E profile \in NoiseProfiles(CornerSeeds(c), 1, CornerHeights(start)) :
                   call = [c EXCEPT !.noise = NoiseField(CornerSeeds(c), 1, profile)]

\* do_corner returns
CornerReturn ==
    /\ call.fn = "do_corner"
    /\ ~call.done
    /\ \E w \in {do_corner(call)} :
          call' = [call EXCEPT !.done = TRUE, !.chunk = w.chunk, !.tops = w.tops]
    /\ UNCHANGED <<structures, chunk_states, players, needs_generated, commands,
                   generate_events, generating, request_events, bouncer_events,
                   sent_messages, chunk_init_events, ran, client_requests,
                   tasks_spawned, needs_loaded, needs_populated>>

CornerNext == CornerReturn

CornerSpec == CornerInit /\ [][CornerNext]_vars

----------------------------------------------------------------------------
(* biosphere_generation::generate_planet: the task of one chunk *)

\* the largest planet edge of a task, in chunks
TaskSide == 5

\* the width of usize in a task (64 in the repository)
TaskBits == 5

\* a - b on usize: a panic (<<>>) with overflow checks, else the wrapped value
usize_sub(a, b, overflow_checks) ==
    IF a >= b THEN <<a - b>>
    ELSE IF overflow_checks THEN <<>>
    ELSE <<a - b + 2 ^ TaskBits>>

\* the faces Planet::get_planet_face_without_structure may give for a block:
\* that of the axis along which the block is farthest from the centre; where
\* several axes are as far, whichever the function prefers
NearestFaces(b, dims) ==
    LET d == [a \in 1..3 |-> 2 * b[a] + 1 - dims[a]]
        abs(n) == IF n < 0 THEN 0 - n ELSE n
        far == {a \in 1..3 : \A o \in 1..3 : abs(d[a]) >= abs(d[o])}
        positive == <<"Right", "Top", "Front">>
        negative == <<"Left", "Bottom", "Back">>
    IN  {IF d[a] >= 0 THEN positive[a] ELSE negative[a] : a \in far}

\* the 8 corners of the chunk at block offsets s
ChunkCorners(s) ==
    {<<s[1] + x * CHUNK_DIMENSIONS, s[2] + y * CHUNK_DIMENSIONS,
       s[3] + z * CHUNK_DIMENSIONS>> : x \in 0..1, y \in 0..1, z \in 0..1}

\* the sets planet_faces may be after the loop over the corners
CornerFaceSets(s, dims) ==
    LET near == {NearestFaces(b, dims) : b \in ChunkCorners(s)}
    IN  {faces \in SUBSET (UNION near) : \A fs \in near : faces \cap fs # {}}

\* faulty variant of the model: no face is removed
remove_opposites_none(planet_faces) == planet_faces

\* "Support for the middle of the planet"
remove_opposites(planet_faces) ==
    planet_faces
      \ ((IF "Top" \in planet_faces THEN {"Bottom"} ELSE {})
           \cup (IF "Right" \in planet_faces THEN {"Left"} ELSE {})
           \cup (IF "Front" \in planet_faces THEN {"Back"} ELSE {}))

\* the calls the task may make for planet_faces: the function and its faces in
\* the order of the parameters; the iterator of a HashSet yields them in any
\* order
Dispatch(planet_faces) ==
    IF Cardinality(planet_faces) = 1
    THEN {[fn |-> "do_face", faces |-> <<f>>] : f \in planet_faces}
    ELSE IF Cardinality(planet_faces) = 2
    THEN {[fn |-> "do_edge", faces |-> <<j_up, k_up>>] :
             j_up \in planet_faces, k_up \in planet_faces} \ 
         {[fn |-> "do_edge", faces |-> <<f, f>>] : f \in planet_faces}
    ELSE {[fn |-> "do_corner",
           faces |-> <<IF "Right" \in planet_faces THEN "Right" ELSE "Left",
                       IF "Top" \in planet_faces THEN "Top" ELSE "Bottom",
                       IF "Front" \in planet_faces THEN "Front" ELSE "Back">>]}

\* a task of generate_planet for the chunk at chunk coordinates chunk of a
\* structure of dims blocks
TaskCall(chunk, dims, overflow_checks) ==
    [fn |-> "task", chunk |-> chunk, dims |-> dims,
     overflow_checks |-> overflow_checks, done |-> FALSE, panicked |-> FALSE,
     middle_air_start |-> <<>>, s |-> <<>>, corner_faces |-> {},
     planet_faces |-> {}, calls |-> "none", faces |-> <<>>]

\* the tasks: a structure of 1 to TaskSide chunks along every axis, any of its
\* chunks, a build with or without overflow checks
TaskInit ==
    /\ structures = <<>>
    /\ chunk_states = <<>>
    /\ players = <<>>
    /\ needs_generated = <<>>
    /\ commands = NoCommands
    /\ generate_events = <<>>
    /\ generating = <<>>
    /\ request_events = <<>>
    /\ bouncer_events = <<>>
    /\ sent_messages = <<>>
    /\ chunk_init_events = <<>>
    /\ ran = {}
    /\ client_requests = <<>>
    /\ tasks_spawned = <<>>
    /\ needs_loaded = <<>>
    /\ needs_populated = <<>>
    /\ \E w \in 1..TaskSide, h \in 1..TaskSide, l \in 1..TaskSide,
          overflow_checks \in BOOLEAN :
          \E x \in 0..(w - 1), y \in 0..(h - 1), z \in 0..(l - 1) :
             call = TaskCall(<<x, y, z>>,
                             <<w * CHUNK_DIMENSIONS, h * CHUNK_DIMENSIONS,
                               l * CHUNK_DIMENSIONS>>, overflow_checks)

\* the task runs up to its call of do_face, do_edge or do_corner
TaskRuns ==
    /\ call.fn = "task"
    /\ ~call.done
    /\ \E middle_air_start \in
            {usize_sub(call.dims[2], CHUNK_DIMENSIONS * 5, call.overflow_checks)} :
          IF middle_air_start = <<>>
          THEN call' = [call EXCEPT !.done = TRUE, !.panicked = TRUE]
          ELSE \E s \in {[a \in 1..3 |-> call.chunk[a] * CHUNK_DIMENSIONS]} :
               \E corner_faces \in CornerFaceSets(s, call.dims) :
               \E planet_faces \in {remove_opposites(corner_faces)} :
               \E d \in Dispatch(planet_faces) :
                  call' = [call EXCEPT !.done = TRUE,
                                       !.middle_air_start = middle_air_start,
                                       !.s = s,
                                       !.corner_faces = corner_faces,
                                       !.planet_faces = planet_faces,
                                       !.calls = d.fn, !.faces = d.faces]
    /\ UNCHANGED <<structures, chunk_states, players, needs_generated, commands,
                   generate_events, generating, request_events, bouncer_events,
                   sent_messages, chunk_init_events, ran, client_requests,
                   tasks_spawned, needs_loaded, needs_populated>>

TaskNext == TaskRuns

TaskSpec == TaskInit /\ [][TaskNext]_vars

----------------------------------------------------------------------------
(* biosphere_generation::get_top_height: the flattening of the noise depth *)

\* the largest planet edge of a sample, in chunks
HeightSide == 12

\* the largest sum of the noise octaves of a sample, in blocks
NoiseDepth == 3

\* the median of three numbers: x.min(y).max(x.max(y).min(z))
second_min(x, y, z) == Max(Min(x, y), Min(Max(x, y), z))

\* dist_from_45 of the mirrored seed coordinates
dist_from_45(seed, s_dimensions, dist_from_space) ==
    second_min(Min(seed[1], s_dimensions - seed[1]),
               Min(seed[2], s_dimensions - seed[2]),
               Min(seed[3], s_dimensions - seed[3])) - dist_from_space

\* the factor depth is multiplied by,
\*   dist_from_45.min(flattening_limit) / flattening_limit * (1 - UNFLATTENED)
\*     + UNFLATTENED,
\* as the fraction num / den with den > 0.  FLAT_FRACTION is 2/5 and
\* UNFLATTENED 1/4; limit_5 is 5 * flattening_limit.  A zero flattening_limit
\* gives a division by zero: minus infinity or not a number
flattening_factor(seed, s_dimensions, middle_air_start, depth) ==
    LET dist_from_space == s_dimensions - (middle_air_start + depth)
        from_45 == dist_from_45(seed, s_dimensions, dist_from_space)
        limit_5 == 2 * (s_dimensions - 2 * dist_from_space)
        least_5 == Min(5 * from_45, limit_5)
    IN  IF limit_5 = 0
        THEN [kind |-> IF from_45 < 0 THEN "-inf" ELSE "NaN", num |-> 0, den |-> 1]
        ELSE IF limit_5 > 0
        THEN [kind |-> "finite", num |-> 3 * least_5 + limit_5, den |-> 4 * limit_5]
        ELSE [kind |-> "finite", num |-> 0 - (3 * least_5 + limit_5),
              den |-> 0 - 4 * limit_5]

\* (middle_air_start as f64 + depth * factor).round() as usize: the cast of a
\* negative number or of a NaN is 0, that of infinity is usize::MAX
flattened_top_height(middle_air_start, depth, factor) ==
    IF factor.kind = "NaN" THEN 0
    ELSE IF factor.kind = "-inf"
    THEN (IF depth < 0 THEN 2 ^ TaskBits - 1 ELSE 0)
    ELSE LET twice == 2 * (middle_air_start * factor.den + depth * factor.num)
         IN  IF twice < 0 THEN 0
             ELSE (twice + factor.den) \div (2 * factor.den)

\* the sample coordinates of do_face, do_edge and do_corner: on the plane of
\* one face, anywhere along the two other axes
SeedsOf(s_dimensions, middle_air_start) ==
    {[<<x, y, z>> EXCEPT ![AxisOf(up)] =
                             SeedPlane(up, s_dimensions, middle_air_start)] :
       up \in BlockFaces, x \in 0..(s_dimensions - 1),
       y \in 0..(s_dimensions - 1), z \in 0..(s_dimensions - 1)}

\* a call of get_top_height whose noise octaves add up to depth
HeightCall(seed, s_dimensions, depth) ==
    [fn |-> "get_top_height", seed |-> seed, s_dimensions |-> s_dimensions,
     middle_air_start |-> s_dimensions - CHUNK_DIMENSIONS * 5, depth |-> depth,
     done |-> FALSE, factor |-> <<>>, top_height |-> 0]

\* the samples: a planet of 5 to HeightSide chunks, a seed of one of its
\* faces, a noise depth up to NoiseDepth either way
HeightInit ==
    /\ structures = <<>>
    /\ chunk_states = <<>>
    /\ players = <<>>
    /\ needs_generated = <<>>
    /\ commands = NoCommands
    /\ generate_events = <<>>
    /\ generating = <<>>
    /\ request_events = <<>>
    /\ bouncer_events = <<>>
    /\ sent_messages = <<>>
    /\ chunk_init_events = <<>>
    /\ ran = {}
    /\ client_requests = <<>>
    /\ tasks_spawned = <<>>
    /\ needs_loaded = <<>>
    /\ needs_populated = <<>>
    /\ \E side \in 5..HeightSide, depth \in (0 - NoiseDepth)..NoiseDepth :
          \E seed \in SeedsOf(CHUNK_DIMENSIONS * side,
                              CHUNK_DIMENSIONS * side - CHUNK_DIMENSIONS * 5) :
             call = HeightCall(seed, CHUNK_DIMENSIONS * side, depth)

\* get_top_height returns
HeightReturn ==
    /\ call.fn = "get_top_height"
    /\ ~call.done
    /\ \E factor \in {flattening_factor(call.seed, call.s_dimensions,
                                        call.middle_air_start, call.depth)} :
          call' = [call EXCEPT !.done = TRUE, !.factor = factor,
                      !.top_height = flattened_top_height(call.middle_air_start,
                                                          call.depth, factor)]
    /\ UNCHANGED <<structures, chunk_states, players, needs_generated, commands,
                   generate_events, generating, request_events, bouncer_events,
                   sent_messages, chunk_init_events, ran, client_requests,
                   tasks_spawned, needs_loaded, needs_populated>>

HeightNext == HeightReturn

HeightSpec == HeightInit /\ [][HeightNext]_vars

----------------------------------------------------------------------------
(* What the claims speak about *)

ThePlanet == structures[PlanetEntity]

\* the chunk coordinates of the planet
PlanetCoords == ChunkCoordsOf(ThePlanet)

StateOf(c) == get_chunk_state(ThePlanet, chunk_states[PlanetEntity], c[1], c[2], c[3])

ChunkAt(c) == chunk_from_chunk_coordinates(ThePlanet, c[1], c[2], c[3])

\* NeedsGenerated flags of a coordinate: queued in Commands, and alive without
\* a queued despawn
QueuedFlags(c) ==
    Cardinality({i \in DOMAIN commands.spawn : commands.spawn[i].chunk_coords = c})

LiveFlags(c) ==
    Cardinality({i \in DOMAIN needs_generated :
                    /\ needs_generated[i].chunk_coords = c
                    /\ i \notin commands.despawn})

PendingEvents(c) ==
    Cardinality({i \in DOMAIN generate_events : generate_events[i].chunk_coords = c})

\* outstanding tasks of a coordinate in GeneratingChunks
TasksOf(c) ==
    Cardinality({i \in DOMAIN generating :
                    /\ generating[i].chunk.x = c[1]
                    /\ generating[i].chunk.y = c[2]
                    /\ generating[i].chunk.z = c[3]})

\* every unit of generation work in flight for a coordinate
WorkOf(c) == QueuedFlags(c) + LiveFlags(c) + PendingEvents(c) + TasksOf(c)

SpawnedFor(c) ==
    Cardinality({i \in DOMAIN tasks_spawned : tasks_spawned[i].chunk_coords = c})

InitEventsFor(c) ==
    Cardinality({i \in DOMAIN chunk_init_events :
                    /\ chunk_init_events[i].x = c[1]
                    /\ chunk_init_events[i].y = c[2]
                    /\ chunk_init_events[i].z = c[3]})

RequestsIn(events, c) ==
    Cardinality({i \in DOMAIN events : events[i].chunk_coords = c})

\* the step of the tick in which a system runs
Runs(sys) == sys \notin ran /\ sys \in ran'

Abs(n) == IF n < 0 THEN 0 - n ELSE n

\* Chebyshev distance of two chunk coordinates
Chebyshev(a, b) ==
    LET dx == Abs(a[1] - b[1])
        dy == Abs(a[2] - b[2])
        dz == Abs(a[3] - b[3])
    IN IF dx >= dy /\ dx >= dz THEN dx ELSE IF dy >= dz THEN dy ELSE dz

\* the coordinates for which a NeedsGenerated flag is queued in Commands
FlaggedCoords == {commands.spawn[i].chunk_coords : i \in DOMAIN commands.spawn}

\* the lifecycle state and the chunk of a coordinate of any planet
StateIn(e, c) == get_chunk_state(structures[e], chunk_states[e], c[1], c[2], c[3])

ChunkIn(e, c) == chunk_from_chunk_coordinates(structures[e], c[1], c[2], c[3])

\* an observer stands within Chebyshev distance d of the coordinate, measured
\* in the grid of the coordinate's planet
ObserverWithin(e, c, d) ==
    \E i \in DOMAIN players : Chebyshev(c, local_chunk(e, players[i])) <= d

\* the voxel tasks that have run to their end
DoneVoxelTasks == {gc \in Range(generating) : IsVoxelTask(gc) /\ gc.finished}

\* the table has an entry with minimum depth 0
HasZeroDepth(block_ranges) ==
    \E i \in DOMAIN block_ranges.ranges : block_ranges.ranges[i][2] = 0

\* the least of a task's depths
MinDepth(depths) == CHOOSE d \in Range(depths) : \A x \in Range(depths) : d <= x

\* a step of a worker thread: one task of GeneratingChunks ends
WorkerStep(i) ==
    /\ Len(generating') = Len(generating)
    /\ ~generating[i].finished
    /\ generating'[i].finished

\* a step of load_chunk
Loads == needs_loaded # <<>> /\ needs_loaded' = <<>>

\* generation work is accepted for the coordinate
Accepted(c) == StateOf(c) = "Loading" \/ WorkOf(c) > 0

\* the coordinate a task generates
CoordsOfTask(gc) == <<gc.chunk.x, gc.chunk.y, gc.chunk.z>>

Unfinished(gc) == ~gc.finished

\* a request for a coordinate of the planet
InRange(ev) ==
    chunk_coords_within(ThePlanet, ev.chunk_coords[1], ev.chunk_coords[2],
                        ev.chunk_coords[3])

\* the ChunkData messages sent to the requester of a request
Answers(ev) ==
    Cardinality({i \in DOMAIN sent_messages :
                    sent_messages[i].requester_id = ev.requester_id})

\* the copies of a request that wait in the request events or in the bouncer
Alive(ev) == CountOf(request_events, ev) + CountOf(bouncer_events, ev)

----------------------------------------------------------------------------
(* C1 *)

\* C1 (as claimed): in every reachable state every coordinate of the planet has
\* at most one outstanding task in GeneratingChunks, and a coordinate that is
\* Loading is owned by exactly one such task.
C1_LoadingOwnedByOneTask ==
    \A c \in PlanetCoords :
        /\ TasksOf(c) <= 1
        /\ StateOf(c) = "Loading" => TasksOf(c) = 1

\* C1 (amended): in every reachable state every coordinate of the planet has at
\* most one outstanding task in GeneratingChunks and at most one task was ever
\* spawned for it; a coordinate that is Loading is owned by exactly one unit of
\* in-flight work (a NeedsGenerated flag, a generation event or a task), and a
\* coordinate that is not Loading by none.
C1_AtMostOneTask ==
    \A c \in PlanetCoords :
        /\ TasksOf(c) <= 1
        /\ SpawnedFor(c) <= 1
        /\ StateOf(c) = "Loading" => WorkOf(c) = 1
        /\ StateOf(c) # "Loading" => WorkOf(c) = 0

\* two coordinates have their tasks outstanding at once, after a client asked
\* twice for one of them
C1_Witness ==
    /\ \A c \in PlanetCoords : TasksOf(c) = 1
    /\ \E i, j \in DOMAIN client_requests :
          /\ i # j
          /\ client_requests[i].chunk_coords = client_requests[j].chunk_coords
          /\ client_requests[i].chunk_coords \in PlanetCoords

----------------------------------------------------------------------------
(* C2 *)

\* C2: every coordinate for which generation was accepted (it is Loading, or a
\* flag, event or task exists for it) eventually is Loaded with a populated
\* chunk, and its unit of in-flight work disappears only in the step that
\* makes it Loaded: nothing is lost between flag, event, task and merge.
C2_AcceptedWorkIsMerged ==
    /\ \A x \in 0..(LiveWidth - 1) :
          Accepted(<<x, 0, 0>>)
              ~> (StateOf(<<x, 0, 0>>) = "Loaded" /\ ChunkAt(<<x, 0, 0>>).populated)
    /\ [][\A c \in PlanetCoords :
              (Accepted(c) /\ ~Accepted(c)') =>
                  (StateOf(c)' = "Loaded" /\ ChunkAt(c)'.populated)]_vars

\* a chunk asked for by a client alone went all the way to Loaded
C2_Witness ==
    /\ players = <<>>
    /\ \E c \in PlanetCoords :
          /\ StateOf(c) = "Loaded"
          /\ ChunkAt(c).populated
          /\ SpawnedFor(c) = 1

----------------------------------------------------------------------------
(* C3 *)

\* C3: a coordinate that is Invalid is Invalid after every step, never has a
\* flag, event or task, is never in the bouncer and never answered; a pass of
\* get_requested_chunk over requests that are all for Invalid coordinates
\* changes neither the store nor the commands, the bouncer or the sent messages.
C3_InvalidIsTerminal ==
    [][\A c \in RequestCoords :
          StateOf(c) = "Invalid" =>
              /\ StateOf(c)' = "Invalid"
              /\ WorkOf(c)' = 0
              /\ RequestsIn(bouncer_events', c) = 0
              /\ (/\ Runs("get_requested_chunk")
                  /\ \A i \in DOMAIN request_events :
                        StateOf(request_events[i].chunk_coords) = "Invalid")
                     => UNCHANGED <<structures, chunk_states, commands,
                                    bouncer_events, sent_messages,
                                    needs_loaded>>]_vars

\* a client's request for an Invalid coordinate was handled and is gone
C3_Witness ==
    /\ \E i \in DOMAIN client_requests :
          StateOf(client_requests[i].chunk_coords) = "Invalid"
    /\ Len(client_requests) = 1
    /\ request_events = <<>>
    /\ "bounce_events" \in ran

----------------------------------------------------------------------------
(* C4 *)

\* C4: when get_requested_chunk runs, every pending request for a coordinate
\* that is Loading is put in the bouncer, the coordinate stays Loading with its
\* chunk and its single unit of in-flight work and gets no new flag; when
\* bounce_events runs, every bounced request is back in the request events for
\* the next pass.
C4_LoadingRequestBounces ==
    [][/\ Runs("get_requested_chunk") =>
            \A c \in PlanetCoords :
                StateOf(c) = "Loading" =>
                    /\ \A i \in DOMAIN request_events :
                          request_events[i].chunk_coords = c =>
                              CountOf(bouncer_events', request_events[i])
                                  = CountOf(bouncer_events, request_events[i])
                                    + CountOf(request_events, request_events[i])
                    /\ StateOf(c)' = "Loading"
                    /\ ChunkAt(c)' = ChunkAt(c)
                    /\ QueuedFlags(c)' = QueuedFlags(c)
                    /\ WorkOf(c)' = 1
       /\ Runs("bounce_events") =>
            /\ bouncer_events' = <<>>
            /\ \A i \in DOMAIN bouncer_events :
                  CountOf(request_events', bouncer_events[i])
                      = CountOf(request_events, bouncer_events[i])
                        + CountOf(bouncer_events, bouncer_events[i])]_vars

\* two requests for a coordinate whose task is outstanding went to the bouncer
C4_Witness ==
    \E c \in PlanetCoords :
        /\ TasksOf(c) = 1
        /\ StateOf(c) = "Loading"
        /\ RequestsIn(bouncer_events, c) = 2

----------------------------------------------------------------------------
(* C5 *)

\* C5: when get_requested_chunk runs with a request pending for a coordinate
\* that is Unloaded, the coordinate becomes Loading and exactly one flag is
\* queued for it, however many requests for it are pending; at most one task
\* is ever spawned for a coordinate, and for a Loading coordinate one
\* eventually is.
C5_UnloadedRequestSpawnsOneTask ==
    /\ [][Runs("get_requested_chunk") =>
            \A c \in PlanetCoords :
                (StateOf(c) = "Unloaded" /\ RequestsIn(request_events, c) > 0) =>
                    /\ StateOf(c)' = "Loading"
                    /\ QueuedFlags(c)' = 1
                    /\ WorkOf(c)' = 1]_vars
    /\ [](\A c \in PlanetCoords : SpawnedFor(c) <= 1)
    /\ \A x \in 0..(LiveWidth - 1) :
          (StateOf(<<x, 0, 0>>) = "Loading")
              ~> (SpawnedFor(<<x, 0, 0>>) = 1 /\ WorkOf(<<x, 0, 0>>) = TasksOf(<<x, 0, 0>>))

\* a client asked twice for a coordinate nobody stands near, the second time
\* before the task was spawned, and one task has been spawned
C5_Witness ==
    /\ players = <<>>
    /\ \E c \in PlanetCoords :
          /\ RequestsIn(client_requests, c) = 2
          /\ RequestsIn(request_events, c) = 2
          /\ SpawnedFor(c) = 1
          /\ TasksOf(c) = 1

----------------------------------------------------------------------------
(* C6 *)

\* C6: when get_requested_chunk runs, a coordinate that is Loaded keeps its
\* state and its chunk, gets no flag, event or task, and no request for it goes
\* to the bouncer; a pass over requests that are all for Loaded coordinates
\* leaves the store and the commands as they were and the bouncer empty.
C6_LoadedRequestIsNoOp ==
    [][Runs("get_requested_chunk") =>
          /\ \A c \in PlanetCoords :
                StateOf(c) = "Loaded" =>
                    /\ StateOf(c)' = "Loaded"
                    /\ ChunkAt(c)' = ChunkAt(c)
                    /\ WorkOf(c)' = 0
                    /\ RequestsIn(bouncer_events', c) = 0
          /\ (\A i \in DOMAIN request_events :
                  StateOf(request_events[i].chunk_coords) = "Loaded")
                => UNCHANGED <<structures, chunk_states, commands, bouncer_events,
                   needs_loaded>>]_vars

\* a request for a Loaded coordinate was handled: its chunk was sent
C6_Witness ==
    /\ sent_messages # <<>>
    /\ request_events = <<>>
    /\ bouncer_events = <<>>
    /\ "get_requested_chunk" \in ran

----------------------------------------------------------------------------
(* C7 *)

\* C7: when notify_when_done_generating runs, for every finished task of
\* GeneratingChunks whose structure exists the task's generated chunk is in the
\* store afterwards, its coordinate is Loaded, one more ChunkInitEvent with the
\* structure and the coordinate has been written and no task of the coordinate
\* is left in GeneratingChunks; no coordinate is ever announced twice.
C7_FinishedTaskIsMergedOnce ==
    /\ [][Runs("notify_when_done_generating") =>
            \A i \in DOMAIN generating :
                (generating[i].finished /\ generating[i].structure_entity \in DOMAIN structures) =>
                    \A gc \in {generating[i]} :
                    \A c \in {CoordsOfTask(gc)} :
                    \A ev \in {ChunkInitEvent(gc.structure_entity, c[1], c[2], c[3])} :
                       /\ ChunkAt(c)' = Populate(gc.chunk)
                       /\ StateOf(c)' = "Loaded"
                       /\ CountOf(chunk_init_events', ev) = CountOf(chunk_init_events, ev) + 1
                       /\ TasksOf(c)' = 0]_vars
    /\ [](\A c \in PlanetCoords : InitEventsFor(c) <= 1)

\* a task was merged and announced, and later passes have run since
C7_Witness ==
    \E c \in PlanetCoords :
        /\ InitEventsFor(c) = 1
        /\ StateOf(c) = "Loaded"
        /\ TasksOf(c) = 0
        /\ ran = {}
        /\ generating # <<>>

----------------------------------------------------------------------------
(* C8 *)

\* C8: when notify_when_done_generating runs, GeneratingChunks afterwards holds
\* exactly the tasks that were unfinished, in their order; every finished
\* task's coordinate is Loaded with the generated chunk, wherever the task
\* stood in the list, and every unfinished task's coordinate is still Loading
\* with the chunk it had.
C8_PollPassKeepsUnfinished ==
    [][Runs("notify_when_done_generating") =>
          /\ generating' = SelectSeq(generating, Unfinished)
          /\ \A i \in DOMAIN generating :
                \A gc \in {generating[i]} :
                \A c \in {CoordsOfTask(gc)} :
                   IF gc.finished
                   THEN StateOf(c)' = "Loaded" /\ ChunkAt(c)' = Populate(gc.chunk)
                   ELSE StateOf(c)' = "Loading" /\ ChunkAt(c)' = ChunkAt(c)]_vars

\* the task spawned second was merged while the task spawned first is still
\* unfinished in GeneratingChunks
C8_Witness ==
    /\ Len(tasks_spawned) = 2
    /\ StateOf(tasks_spawned[2].chunk_coords) = "Loaded"
    /\ StateOf(tasks_spawned[1].chunk_coords) = "Loading"
    /\ Len(generating) = 1
    /\ ~generating[1].finished
    /\ CoordsOfTask(generating[1]) = tasks_spawned[1].chunk_coords

----------------------------------------------------------------------------
(* C9 *)

----------------------------------------------------------------------------
(* C10 *)

\* C10: when generate_chunks_near_players runs with a single observer in chunk
\* p, the coordinates it selects (they become Loading with a fresh chunk and
\* one NeedsGenerated flag each is queued) are exactly the coordinates of the
\* planet at Chebyshev distance at most 2 from p that were Unloaded: on a
\* planet that is all Unloaded exactly the coordinates of the planet within
\* distance 2; a coordinate that was Loading or Loaded, or that is farther
\* away, is not selected and keeps its state and its chunk.
C10_SelectsChebyshevBall ==
    [][(Runs("generate_chunks_near_players") /\ Len(players) = 1) =>
          \A p \in {players[1]} :
          \A near \in {{c \in PlanetCoords : Chebyshev(c, p) <= 2}} :
          \A selected \in {{c \in near : StateOf(c) = "Unloaded"}} :
             /\ FlaggedCoords' = FlaggedCoords \cup selected
             /\ Len(commands'.spawn) = Len(commands.spawn) + Cardinality(selected)
             /\ (\A c \in PlanetCoords : StateOf(c) = "Unloaded") => selected = near
             /\ \A c \in PlanetCoords :
                   IF c \in selected
                   THEN /\ StateOf(c)' = "Loading"
                        /\ ChunkAt(c)' = Chunk_new(c[1], c[2], c[3])
                        /\ QueuedFlags(c)' = 1
                   ELSE /\ StateOf(c)' = StateOf(c)
                        /\ ChunkAt(c)' = ChunkAt(c)
                        /\ QueuedFlags(c)' = QueuedFlags(c)]_vars

\* an observer inside a planet that was all Unloaded: the pass has selected the
\* chunks around it and left a chunk of the planet that is farther away
C10_Witness ==
    /\ "generate_chunks_near_players" \in ran
    /\ needs_generated = <<>>
    /\ chunk_init_events = <<>>
    /\ Len(players) = 1
    /\ players[1] \in PlanetCoords
    /\ \E c \in PlanetCoords : StateOf(c) = "Unloaded" /\ Chebyshev(c, players[1]) = 3
    /\ \A c \in PlanetCoords :
          Chebyshev(c, players[1]) <= 2 => (StateOf(c) = "Loading" /\ QueuedFlags(c) = 1)

----------------------------------------------------------------------------
(* C11 *)

\* C11: between two ticks of the server no chunk of the planet that lies
\* farther than the retention radius (Chebyshev distance 3) from every observer
\* is Loaded.
C11_FarChunksAreUnloaded ==
    ran = {} =>
        \A c \in PlanetCoords :
            (\A i \in DOMAIN players : Chebyshev(c, players[i]) > 3) =>
                StateOf(c) # "Loaded"

----------------------------------------------------------------------------
(* C12 *)

\* C12: when unload_chunks_far_from_players runs, every Loaded chunk of every
\* planet that is within Chebyshev distance 3 of at least one observer is
\* Loaded afterwards with the chunk it had, whatever planet is the nearest one
\* of that observer.
C12_NearChunksAreKept ==
    [][Runs("unload_chunks_far_from_players") =>
          \A e \in DOMAIN structures :
          \A c \in ChunkCoordsOf(structures[e]) :
             (StateIn(e, c) = "Loaded" /\ ObserverWithin(e, c, 3)) =>
                 (StateIn(e, c)' = "Loaded" /\ ChunkIn(e, c)' = ChunkIn(e, c))]_vars

----------------------------------------------------------------------------
(* C13 *)

----------------------------------------------------------------------------
(* C14 *)

\* C14: a generation task is never cancelled.  No step but the poll pass takes
\* a task out of GeneratingChunks, and the poll pass does so by merging its
\* chunk: the coordinate is Loaded afterwards and a ChunkInitEvent is sent.  The
\* unload pass leaves the coordinate of a running task as it is, wherever the
\* observers are.  A Loaded coordinate stops being Loaded only in a step of the
\* unload pass.  Every task ends with its coordinate Loaded.
C14_TaskIsNeverCancelled ==
    /\ [][\A c \in PlanetCoords :
             /\ TasksOf(c)' < TasksOf(c) =>
                    /\ Runs("notify_when_done_generating")
                    /\ StateOf(c)' = "Loaded"
                    /\ InitEventsFor(c)' = InitEventsFor(c) + 1
             /\ (Runs("unload_chunks_far_from_players") /\ TasksOf(c) > 0) =>
                    (StateOf(c)' = StateOf(c) /\ ChunkAt(c)' = ChunkAt(c))
             /\ (StateOf(c) = "Loaded" /\ StateOf(c)' # "Loaded") =>
                    Runs("unload_chunks_far_from_players")]_vars
    /\ \A x \in 0..(LiveWidth - 1) :
          (TasksOf(<<x, 0, 0>>) > 0) ~> (StateOf(<<x, 0, 0>>) = "Loaded")

\* the observer has moved away from a coordinate whose task is still running:
\* the coordinate is outside the retention radius and Loading, and the unload
\* pass of this tick has run
C14_Witness ==
    /\ "unload_chunks_far_from_players" \in ran
    /\ \E c \in PlanetCoords :
          /\ ~ObserverWithin(PlanetEntity, c, 3)
          /\ TasksOf(c) = 1
          /\ StateOf(c) = "Loading"

----------------------------------------------------------------------------
(* C17 *)

\* C17: with the table of the grass biosphere, face_block gives grass for
\* depth 0, dirt for the depths 1 to 4 and stone for every depth from 5 on.
C17_GrassTable ==
    \A gc \in DoneVoxelTasks :
        (gc.block_ranges = make_block_ranges /\ Len(gc.depths) = 1) =>
            gc.block = IF gc.depths[1] = 0 THEN "cosmos:grass"
                       ELSE IF gc.depths[1] <= 4 THEN "cosmos:dirt"
                       ELSE "cosmos:stone"

\* face_block has answered stone for a depth above 5 with the grass table
C17_Witness ==
    \E gc \in DoneVoxelTasks :
        /\ gc.block_ranges = make_block_ranges
        /\ gc.depths = <<MaxDepth>>
        /\ gc.block = "cosmos:stone"

----------------------------------------------------------------------------
(* C18 *)

\* C18: with a table that has an entry of minimum depth 0, in whatever place,
\* face_block, edge_block and corner_block return a material of the table and
\* do not panic, whatever the depths.
C18_ZeroDepthEntryNeverPanics ==
    \A gc \in DoneVoxelTasks :
        HasZeroDepth(gc.block_ranges) =>
            /\ gc.block # Panic
            /\ \E i \in DOMAIN gc.block_ranges.ranges : gc.block_ranges.ranges[i][1] = gc.block

\* corner_block has answered from a table whose zero-depth entry is not the
\* last one, for depths below every other minimum
C18_Witness ==
    \E gc \in DoneVoxelTasks :
        /\ Len(gc.block_ranges.ranges) = 3
        /\ gc.block_ranges.ranges[2][2] = 0
        /\ gc.depths = <<0, 0, 0>>
        /\ gc.block = gc.block_ranges.ranges[2][1]

----------------------------------------------------------------------------
(* C19 *)

\* C19: a table without an entry of minimum depth 0 is rejected when it is made
\* and installed, before a task uses it: no task ends in the panic of a lookup
\* that found no range.
C19_MissingRangeIsCaughtAtStartup ==
    \A gc \in DoneVoxelTasks : gc.block # Panic

----------------------------------------------------------------------------
(* C20 *)

\* C20: the shallowest depth decides: edge_block(a, b) is face_block(min(a, b))
\* and corner_block(a, b, c) is face_block(min(a, b, c)), for every table and
\* all depths, the panic of a lookup without a match included.
C20_ShallowestDepthDecides ==
    \A gc \in DoneVoxelTasks :
        Len(gc.depths) >= 2 => gc.block = face_block(gc.block_ranges, MinDepth(gc.depths))

\* edge_block has answered for two depths that fall into different ranges of
\* the grass table
C20_Witness ==
    \E gc \in DoneVoxelTasks :
        /\ gc.block_ranges = make_block_ranges
        /\ gc.depths = <<MaxDepth, 0>>
        /\ gc.block = "cosmos:grass"

----------------------------------------------------------------------------
(* C15 *)

\* C15: the panic of one chunk's task stays with that chunk.  No step stops
\* the schedule, and every task that has not ended in a panic is either still
\* outstanding after the step or has been merged by the poll pass, which leaves
\* its coordinate Loaded.
C15_FailureStaysInItsTask ==
    [][/\ "panic" \notin ran'
       /\ \A i \in DOMAIN generating :
          \A gc \in {generating[i]} :
          \A c \in {CoordsOfTask(gc)} :
             ~poll_panics(gc) =>
                 \/ TasksOf(c)' >= 1
                 \/ (Runs("notify_when_done_generating") /\ StateOf(c)' = "Loaded")]_vars

----------------------------------------------------------------------------
(* C16 *)

\* C16: a running task changes nothing in the structure store.  The step in
\* which a task ends changes that task and nothing else: not the store, not the
\* lifecycle states, not another task.  The chunk stored for a coordinate
\* changes only in a step of the poll pass (merge), of load_chunk or of the
\* unload pass, its lifecycle state only in a step of a system, and every such
\* step is the step of one system alone.
C16_TasksDoNotTouchTheStore ==
    [][/\ \A i \in DOMAIN generating :
             WorkerStep(i) =>
                 /\ UNCHANGED <<structures, chunk_states, chunk_init_events, ran,
                                needs_loaded, tasks_spawned>>
                 /\ generating' = [generating EXCEPT ![i] = generating'[i]]
                 /\ generating'[i].chunk = generating[i].chunk
       /\ \A c \in PlanetCoords :
             /\ ChunkAt(c)' # ChunkAt(c) =>
                    \/ (Runs("notify_when_done_generating") /\ ~Loads)
                    \/ (Runs("unload_chunks_far_from_players") /\ ~Loads)
                    \/ (Loads /\ ran' = ran)
             /\ StateOf(c)' # StateOf(c) =>
                    (Cardinality(ran' \ ran) = 1 /\ ~Loads) \/ (Loads /\ ran' = ran)]_vars

\* a task has ended on its worker thread and is not merged yet: its coordinate
\* is Loading and the store holds no blocks for it
C16_Witness ==
    \E i \in DOMAIN generating :
    \E c \in {CoordsOfTask(generating[i])} :
        /\ generating[i].finished
        /\ StateOf(c) = "Loading"
        /\ IsEmptyChunk(ThePlanet, c)
        /\ InitEventsFor(c) = 0

----------------------------------------------------------------------------
(* C21 *)

\* the second call of a round trip has returned or panicked
CameBack(fn) == call.fn = fn /\ ~call.first /\ call.done

\* the first call of a round trip has panicked
FirstPanics(fn) == call.fn = fn /\ call.first /\ call.done /\ call.out = <<>>

\* C21 as stated: for all widths w > 0, heights h > 0 and all coordinates with
\* x < w and y < h (any z), flatten returns an index and expand gives
\* (x, y, z) back for it.
C21_RoundTripForAnyZ ==
    /\ ~FirstPanics("flatten")
    /\ CameBack("expand") => call.out = <<call.given>>

\* the exact value of width * height is a usize
AreaFits == call.width * call.height <= usize_MAX

\* C21: for all widths w > 0, heights h > 0 and all coordinates with x < w and
\* y < h, provided w * h and z * w * h + y * w + x do not exceed usize::MAX,
\* flatten returns an index and expand gives (x, y, z) back for it.
C21_RoundTripWithinUsize ==
    /\ (FirstPanics("flatten") /\ AreaFits)
          => call.z * call.width * call.height + call.y * call.width + call.x > usize_MAX
    /\ (CameBack("expand") /\ AreaFits
           /\ flatten(call.given[1], call.given[2], call.given[3],
                      call.width, call.height) <= usize_MAX)
          => call.out = <<call.given>>

\* the coordinates of a cell of a layer above the first came back
C21_Witness ==
    /\ CameBack("expand") /\ AreaFits
    /\ call.given[1] > 0 /\ call.given[2] > 0 /\ call.given[3] > 0
    /\ call.out = <<call.given>>

----------------------------------------------------------------------------
(* C22 *)

\* C22 as stated: for every index i and all widths w > 0 and heights h > 0,
\* expand returns coordinates with x < w and y < h, and flatten gives i back
\* for them.
C22_IndexRoundTripForAnySize ==
    /\ ~FirstPanics("expand")
    /\ (call.fn = "expand" /\ call.done /\ call.out # <<>>)
          => call.out[1][1] < call.width /\ call.out[1][2] < call.height
    /\ CameBack("flatten") => call.out = <<call.given>>

\* C22: for every index i and all widths w > 0 and heights h > 0 with w * h
\* at most usize::MAX, expand returns coordinates with x < w and y < h, and
\* flatten gives i back for them.
C22_IndexRoundTripWithinUsize ==
    AreaFits =>
        /\ ~FirstPanics("expand")
        /\ (call.fn = "expand" /\ call.done)
              => call.out[1][1] < call.width /\ call.out[1][2] < call.height
        /\ CameBack("flatten") => call.out = <<call.given>>

\* an index beyond the first layer came back
C22_Witness ==
    /\ CameBack("flatten") /\ AreaFits
    /\ call.given >= call.width * call.height
    /\ call.x > 0 /\ call.y > 0
    /\ call.out = <<call.given>>

----------------------------------------------------------------------------
(* C24 *)

\* the chunk of the coordinate was read from disk: populate_chunks has queued
\* or inserted NeedsLoaded with its data
ReadFromDisk(c) ==
    \/ \E i \in DOMAIN needs_populated :
          /\ needs_populated[i].chunk_coords = c
          /\ needs_populated[i].command = "load"
          /\ needs_populated[i].file.sd # <<>>
    \/ \E i \in DOMAIN needs_loaded :
          /\ needs_loaded[i].sd # <<>>
          /\ CoordsOfTask([chunk |-> needs_loaded[i].sd[1]]) = c

\* the coordinate was handed to the generation path: populate_chunks has queued
\* ChunkNeedsGenerated for it, or generation work or a task exists for it
HandedToGeneration(c) ==
    \/ \E i \in DOMAIN needs_populated :
          /\ needs_populated[i].chunk_coords = c
          /\ needs_populated[i].command = "generate"
    \/ WorkOf(c) > 0
    \/ SpawnedFor(c) > 0

----------------------------------------------------------------------------
(* C25 *)

\* C25: when a chunk's save file exists but cannot be deserialized, the chunk
\* falls back to fresh generation and the server does not abort: no system
\* panics while the chunk waits to be populated.
C25_CorruptFileFallsBack ==
    \A i \in DOMAIN needs_populated :
        needs_populated[i].file = CorruptFile => "panic" \notin ran

----------------------------------------------------------------------------
(* C27 *)

\* the three chained systems of the lifecycle step run in their order
ChainInOrder ==
    /\ "get_requested_chunk" \in ran => "generate_chunks_near_players" \in ran
    /\ "bounce_events" \in ran => "get_requested_chunk" \in ran

\* a step that changes ran runs one system that has not run in this tick, or
\* ends a tick in which every system has run; tasks are dispatched only in the
\* step of generate_planet and merged only in that of
\* notify_when_done_generating
OncePerTick ==
    /\ ran' # ran =>
          \/ \E sys \in Systems : Runs(sys) /\ ran' = ran \cup {sys}
          \/ ran = Systems /\ ran' = {}
    /\ tasks_spawned' # tasks_spawned => Runs("generate_planet")
    /\ chunk_init_events' # chunk_init_events => Runs("notify_when_done_generating")

\* C27 as stated: in every tick generate_chunks_near_players precedes
\* get_requested_chunk, which precedes bounce_events, and generate_planet and
\* notify_when_done_generating run after these three in the same tick, each
\* once per tick.
C27_LifecycleBeforeScheduler ==
    /\ [](/\ ChainInOrder
          /\ "generate_planet" \in ran => "bounce_events" \in ran
          /\ "notify_when_done_generating" \in ran => "bounce_events" \in ran)
    /\ [][OncePerTick]_vars

\* C27: in every tick generate_chunks_near_players precedes
\* get_requested_chunk, which precedes bounce_events; generate_planet and
\* notify_when_done_generating run once in every tick, at any place before,
\* between or after these three.
C27_ChainInOrderOthersOnce ==
    []ChainInOrder /\ [][OncePerTick]_vars

\* the systems have run in a tick in which a task was dispatched
C27_Witness ==
    /\ ran = Systems
    /\ tasks_spawned # <<>>
    /\ chunk_init_events # <<>>

----------------------------------------------------------------------------
(* C28 *)

\* the coordinates in the structure of block v of the chunk of the call
BlockCoords(v) == [a \in 1..3 |-> call.s[a] + v[a]]

\* the height of block v along a face, and the seed of the column it is in
HeightOf(face, v) == HeightAlong(face, call.s_dimensions, BlockCoords(v)[AxisOf(face)])

ColumnSeed(face, v) ==
    [BlockCoords(v) EXCEPT ![AxisOf(face)] =
        SeedPlane(face, call.s_dimensions, call.middle_air_start)]

\* two blocks of one column of a face
SameColumn(face, v, w) == \A a \in (1..3) \ {AxisOf(face)} : v[a] = w[a]

\* C28: in a chunk produced by do_face a block is solid exactly when its height
\* along the face's up axis is at most the top height of its column, so no
\* air lies below a solid block of a column; a solid block has the material
\* face_block(top_height - actual_height) and the face as its up, and the
\* block at the surface has the zero-depth material.
C28_FaceColumnsAreSolidUpToTheSurface ==
    (call.fn = "do_face" /\ call.done) =>
        \A v \in Voxels :
            LET top_height == call.noise[ColumnSeed(call.up, v)]
                actual_height == HeightOf(call.up, v)
            IN  /\ call.chunk[v] # Air <=> actual_height <= top_height
                /\ call.chunk[v] # Air =>
                      /\ call.chunk[v] =
                            Block(face_block(call.block_ranges,
                                             top_height - actual_height), call.up)
                      /\ \A w \in Voxels :
                            (SameColumn(call.up, v, w)
                               /\ HeightOf(call.up, w) < actual_height)
                              => call.chunk[w] # Air
                /\ actual_height = top_height
                      => call.chunk[v].block = "cosmos:grass"

\* a chunk with a column whose surface lies inside it, above another block
C28_Witness ==
    /\ call.fn = "do_face" /\ call.done
    /\ \E v, w \in Voxels :
          /\ SameColumn(call.up, v, w)
          /\ HeightOf(call.up, v) = call.noise[ColumnSeed(call.up, v)]
          /\ call.chunk[v].block = "cosmos:grass"
          /\ call.chunk[w].block = "cosmos:dirt"
          /\ \E t \in Voxels : call.chunk[t] = Air

----------------------------------------------------------------------------
(* C29 *)

\* do_edge has returned a chunk
EdgeDone == call.fn = "do_edge" /\ call.done /\ ~call.panicked

\* the row of block v of an edge chunk and its indices along the two faces
RowOf(v) == v[EdgeRowAxis(call)]

AlongJ(v) == v[AxisOf(call.j_up)]

AlongK(v) == v[AxisOf(call.k_up)]

\* the first_both_45 the blocks with index j of row i were filled under
CapAt(i, j) == call.tops[i][j + 1].first_both_45

\* the capped top heights of the two faces at block v: the field's value at
\* the column of v, not below the height of v along the other face and not
\* above first_both_45
JTopAt(v) ==
    Min(Max(call.noise[ColumnSeed(call.j_up, v)], HeightOf(call.k_up, v)),
        CapAt(RowOf(v), AlongJ(v)))

KTopAt(v) ==
    Min(Max(call.noise[ColumnSeed(call.k_up, v)], HeightOf(call.j_up, v)),
        CapAt(RowOf(v), AlongJ(v)))

\* C29: in a chunk produced by do_edge a block is filled only if its height
\* along each of the two faces is at most that face's capped top height and at
\* most one of the two top heights equals the block's height; a block at
\* which both top heights equal its height is left empty.
C29_EdgeFillRule ==
    EdgeDone =>
        \A v \in Voxels :
            /\ call.chunk[v] # Air =>
                  /\ HeightOf(call.j_up, v) <= JTopAt(v)
                  /\ HeightOf(call.k_up, v) <= KTopAt(v)
                  /\ ~(HeightOf(call.j_up, v) = JTopAt(v)
                         /\ HeightOf(call.k_up, v) = KTopAt(v))
            /\ (HeightOf(call.j_up, v) = JTopAt(v) /\ HeightOf(call.k_up, v) = KTopAt(v))
                  => call.chunk[v] = Air

\* a chunk with a block at the top of both faces, a block at the top of one
\* face and a block below both
C29_Witness ==
    /\ EdgeDone
    /\ \E v \in Voxels :
          /\ HeightOf(call.j_up, v) = JTopAt(v) /\ HeightOf(call.k_up, v) = KTopAt(v)
          /\ call.chunk[v] = Air
    /\ \E v \in Voxels :
          /\ HeightOf(call.j_up, v) = JTopAt(v) /\ HeightOf(call.k_up, v) < KTopAt(v)
          /\ call.chunk[v] # Air
    /\ \E v \in Voxels :
          /\ HeightOf(call.j_up, v) < JTopAt(v) /\ HeightOf(call.k_up, v) < KTopAt(v)
          /\ call.chunk[v] # Air

----------------------------------------------------------------------------
(* C30 *)

\* the height along j_up of the blocks with index n: the seam value
SeamAt(n) == HeightAlong(call.j_up, call.s_dimensions, call.s[AxisOf(call.j_up)] + n)

\* in row i both faces' cached top heights equal the seam value at index n
BothOn45(i, n) ==
    /\ edge_j_top(call)[i][n] = SeamAt(n)
    /\ call.tops[i][n + 1].k_top = SeamAt(n)

\* C30: in do_edge, for each row i, first_both_45 is set at the first index j
\* at which both faces' cached top heights equal the seam value, the height of
\* that index in the structure, wherever the chunk is; from then on no block
\* of the row above that height is filled.
C30_FirstShared45IsFound ==
    EdgeDone =>
        \A i \in Indices, j \in Indices :
            (BothOn45(i, j) /\ \A n \in 0..(j - 1) : ~BothOn45(i, n)) =>
                /\ CapAt(i, j) = SeamAt(j)
                /\ \A v \in Voxels :
                      (RowOf(v) = i /\ AlongJ(v) >= j /\ call.chunk[v] # Air)
                        => /\ HeightOf(call.j_up, v) <= SeamAt(j)
                           /\ HeightOf(call.k_up, v) <= SeamAt(j)

----------------------------------------------------------------------------
(* C23 *)

\* the call of do_face for the chunk of the call, with its noise
FaceOf(up) ==
    [up |-> up, s |-> call.s, s_dimensions |-> call.s_dimensions,
     middle_air_start |-> call.middle_air_start,
     block_ranges |-> call.block_ranges, noise |-> call.noise]

\* a block of an edge chunk on the seam: as high along one face as along the
\* other
OnSeam(v) == HeightOf(call.j_up, v) = HeightOf(call.k_up, v)

\* C23: at every block on the seam of two faces the surface height and the
\* material obtained through one face's fill path equal those obtained
\* through the other's, and the block do_edge writes there agrees with what
\* do_face computes there for either face.
C23_SeamAgreement ==
    EdgeDone =>
        \A v \in Voxels :
            OnSeam(v) =>
                /\ JTopAt(v) = KTopAt(v)
                /\ do_face(FaceOf(call.j_up))[v].block
                      = do_face(FaceOf(call.k_up))[v].block
                /\ call.chunk[v].block = do_face(FaceOf(call.j_up))[v].block

----------------------------------------------------------------------------
(* C26 *)

\* C26: generating the same chunk twice with the same noise, dimensions and
\* block table gives the same blocks and orientations, whichever of the two
\* faces of an edge chunk the iterator of the face set yields first.
C26_EdgeChunkIsDeterministic ==
    (call.fn = "do_edge" /\ call.done /\ ~call.first) =>
        ~call.panicked /\ call.chunk = call.earlier

\* the second call had the faces in the other order and filled blocks with
\* the orientation of either face
C26_Witness ==
    /\ EdgeDone /\ ~call.first /\ call.swapped
    /\ call.chunk = call.earlier
    /\ \E v, w \in Voxels :
          /\ call.chunk[v].up = call.j_up /\ call.chunk[v].block = "cosmos:grass"
          /\ call.chunk[w].up = call.k_up /\ call.chunk[w].block = "cosmos:grass"

----------------------------------------------------------------------------
(* C31 *)

\* do_corner has returned a chunk
CornerDone == call.fn = "do_corner" /\ call.done

\* the height of block v of a corner chunk along the face of axis a
CornerHeightOf(a, v) ==
    HeightAlong(<<call.x_up, call.y_up, call.z_up>>[a], call.s_dimensions,
                call.s[a] + v[a])

\* the first_all_45 the blocks of column (i, j) were filled under
CornerCapAt(v) == call.tops[v[1]][v[2] + 1].first_all_45

\* the capped top height of the face of axis a in the column of block v along
\* that axis: the noise above the column, not below the heights of the column
\* along the two other axes, not above the cap
CornerTopAt(a, v) ==
    LET others == (1..3) \ {a}
        m == CHOOSE m \in others : \A n \in others : m <= n
        n == CHOOSE n \in others : n # m
    IN  Min(Max(Max(call.noise[CornerSeed(call, a, v[m], v[n])],
                    CornerHeightOf(m, v)), CornerHeightOf(n, v)),
            CornerCapAt(v))

\* the faces at whose capped top block v lies
CornerTopsOf(v) == {a \in 1..3 : CornerHeightOf(a, v) = CornerTopAt(a, v)}

\* the heights compared when first_all_45 was looked for in column (i, j) are
\* those cached for that column: the x plane is built for the pair (y, z), so
\* its entry has the y of the column, the y plane is built for (x, z), so its
\* entry has the x of the column
CornerReadsOwnColumn(i, j) ==
    /\ call.tops[i][j + 1].read.x_top \in {corner_x_top(call)[j][k] : k \in Indices}
    /\ call.tops[i][j + 1].read.y_top \in {corner_y_top(call)[i][k] : k \in Indices}

\* C31: in a chunk produced by do_corner a block is filled only if its height
\* along each of the three faces is at most that face's capped top height and
\* at most one of the three equals it; and the cached height planes are read
\* with the pair of in-chunk coordinates they were built with, also where
\* first_all_45 is looked for.
C31_CornerFillAndIndexing ==
    CornerDone =>
        /\ \A v \in Voxels :
              call.chunk[v] # Air =>
                 /\ \A a \in 1..3 : CornerHeightOf(a, v) <= CornerTopAt(a, v)
                 /\ Cardinality(CornerTopsOf(v)) <= 1
        /\ \A i \in Indices, j \in Indices : CornerReadsOwnColumn(i, j)

----------------------------------------------------------------------------
(* C32 *)

\* the task has made its call
TaskDone == call.fn = "task" /\ call.done /\ ~call.panicked

\* the faces of a set that look along axis a
FacesOfAxis(faces, a) == {f \in faces : AxisOf(f) = a}

\* C32: whatever faces the 8 corners of a chunk give, after the removal of
\* Bottom, Left and Back where their opposite is present one to three faces
\* remain, at most one per axis; one face calls do_face, two call do_edge, and
\* do_corner is called only for three faces, with the face of the set on each
\* axis.
C32_FaceSetDispatch ==
    TaskDone =>
        /\ Cardinality(call.planet_faces) \in 1..3
        /\ \A a \in 1..3 : Cardinality(FacesOfAxis(call.planet_faces, a)) <= 1
        /\ Cardinality(call.planet_faces) = 1 => call.calls = "do_face"
        /\ Cardinality(call.planet_faces) = 2 => call.calls = "do_edge"
        /\ call.calls = "do_corner" =>
              /\ Cardinality(call.planet_faces) = 3
              /\ \A a \in 1..3 : call.faces[a] \in FacesOfAxis(call.planet_faces, a)
        /\ \A n \in DOMAIN call.faces : call.faces[n] \in call.planet_faces

\* a chunk at the middle of a planet: its corners give faces of both
\* directions, three remain and do_corner is called
C32_Witness ==
    /\ TaskDone
    /\ Cardinality(call.corner_faces) > 3
    /\ call.calls = "do_corner"
    /\ call.faces[1] = "Left"

----------------------------------------------------------------------------
(* C33 *)

\* get_top_height has returned
HeightDone == call.fn = "get_top_height" /\ call.done

\* C33: the factor get_top_height multiplies the noise depth by is a number
\* from UNFLATTENED (1/4) to 1, for every sample coordinate of the structure
\* and every noise depth; it is never negative and never below 1/4.
C33_FactorBetweenUnflattenedAndOne ==
    HeightDone =>
        /\ call.factor.kind = "finite"
        /\ call.factor.den <= 4 * call.factor.num
        /\ call.factor.num <= call.factor.den

----------------------------------------------------------------------------
(* C34 *)

\* the finished tasks a run of notify_when_done_generating merges
MergesDue ==
    Cardinality({i \in DOMAIN generating :
                    /\ generating[i].finished
                    /\ generating[i].structure_entity \in DOMAIN structures})

\* the chunks a run of load_chunk loads
LoadsDue ==
    Cardinality({i \in DOMAIN needs_loaded :
                    /\ needs_loaded[i].sd # <<>>
                    /\ needs_loaded[i].structure_entity \in DOMAIN structures})

\* the event is about a chunk whose data is in the store and that is Loaded
Announced(ev, all_structures, all_states) ==
    /\ ev.structure_entity \in DOMAIN all_structures
    /\ get_chunk_state(all_structures[ev.structure_entity],
                       all_states[ev.structure_entity], ev.x, ev.y, ev.z) = "Loaded"
    /\ chunk_from_chunk_coordinates(all_structures[ev.structure_entity],
                                    ev.x, ev.y, ev.z).populated

\* C34: a ChunkInitEvent for a coordinate is sent only in a step that has
\* written the chunk's data to the store, so that the chunk is Loaded when the
\* step ends, never Unloaded or Loading; a step sends at most one event per
\* merge and per disk load, and keeps the events sent before.
C34_InitEventAfterStoreWrite ==
    [][/\ Len(chunk_init_events') >= Len(chunk_init_events)
       /\ SubSeq(chunk_init_events', 1, Len(chunk_init_events)) = chunk_init_events
       /\ \A n \in (Len(chunk_init_events) + 1)..Len(chunk_init_events') :
             Announced(chunk_init_events'[n], structures', chunk_states')
       /\ Len(chunk_init_events') - Len(chunk_init_events)
             <= (IF Runs("notify_when_done_generating") THEN MergesDue ELSE 0)
                  + (IF Loads THEN LoadsDue ELSE 0)]_vars

\* every chunk of the planet was announced once, one after a merge of a task
\* and one after a load from disk
C34_Witness ==
    /\ Len(chunk_init_events) = PopWidth
    /\ \A n \in DOMAIN chunk_init_events :
          Announced(chunk_init_events[n], structures, chunk_states)
    /\ \A c \in PlanetCoords : InitEventsFor(c) = 1
    /\ Len(tasks_spawned) = 1

----------------------------------------------------------------------------
(* C35 *)

\* the finished tasks whose structure entity no longer exists
GoneTasksDue ==
    {i \in DOMAIN generating :
        /\ generating[i].finished
        /\ generating[i].structure_entity \notin DOMAIN structures}

\* the finished tasks of structure e
TasksDueOf(e) ==
    {i \in DOMAIN generating :
        generating[i].finished /\ generating[i].structure_entity = e}

\* C35: when notify_when_done_generating polls a finished task whose structure
\* entity no longer exists, the task leaves GeneratingChunks, so that it is not
\* polled again, nothing is merged and no ChunkInitEvent is sent for it, and
\* the store of every other structure changes only at the chunks of that
\* structure's own finished tasks.
C35_FinishedTaskOfGoneStructure ==
    [][Runs("notify_when_done_generating") =>
          /\ \A i \in GoneTasksDue :
                /\ generating[i] \notin Range(generating')
                /\ \A n \in (Len(chunk_init_events) + 1)..Len(chunk_init_events') :
                      chunk_init_events'[n].structure_entity
                         # generating[i].structure_entity
          /\ DOMAIN structures' = DOMAIN structures
          /\ \A e \in DOMAIN structures :
                \A c \in ChunkCoordsOf(structures[e]) :
                   (\A i \in TasksDueOf(e) : CoordsOfTask(generating[i]) # c) =>
                       /\ chunk_from_chunk_coordinates(structures'[e], c[1], c[2], c[3])
                            = chunk_from_chunk_coordinates(structures[e], c[1], c[2], c[3])
                       /\ get_chunk_state(structures'[e], chunk_states'[e], c[1], c[2], c[3])
                            = get_chunk_state(structures[e], chunk_states[e], c[1], c[2], c[3])]_vars

\* a task of the despawned moon has left GeneratingChunks without an event,
\* a task of the planet was merged, and the planet's other chunk is as it was
C35_Witness ==
    /\ DOMAIN structures = {PlanetEntity}
    /\ \E i \in DOMAIN tasks_spawned : tasks_spawned[i].structure_entity = MoonEntity
    /\ \A i \in DOMAIN generating : generating[i].structure_entity # MoonEntity
    /\ \A n \in DOMAIN chunk_init_events :
          chunk_init_events[n].structure_entity # MoonEntity
    /\ \E n \in DOMAIN chunk_init_events :
          chunk_init_events[n].structure_entity = PlanetEntity
    /\ \E c \in ChunkCoordsOf(structures[PlanetEntity]) :
          ~chunk_from_chunk_coordinates(structures[PlanetEntity], c[1], c[2], c[3]).populated

----------------------------------------------------------------------------
(* C36 *)

\* the coordinate lies within the chunk bounds of structure e
InBounds(e, c) ==
    e \in DOMAIN structures => chunk_coords_within(structures[e], c[1], c[2], c[3])

\* C36: no NeedsGenerated flag, spawned or queued, no generation event and no
\* task exists for a chunk coordinate outside the chunk bounds of its
\* structure, wherever the observer stands, outside the planet included, and
\* whatever coordinates the clients ask for.
C36_NoWorkOutsideBounds ==
    /\ \A i \in DOMAIN needs_generated :
          InBounds(needs_generated[i].structure_entity, needs_generated[i].chunk_coords)
    /\ \A i \in DOMAIN commands.spawn :
          InBounds(commands.spawn[i].structure_entity, commands.spawn[i].chunk_coords)
    /\ \A i \in DOMAIN generate_events :
          InBounds(generate_events[i].structure_entity, generate_events[i].chunk_coords)
    /\ \A i \in DOMAIN generating :
          InBounds(generating[i].structure_entity, CoordsOfTask(generating[i]))
    /\ \A i \in DOMAIN tasks_spawned :
          InBounds(tasks_spawned[i].structure_entity, tasks_spawned[i].chunk_coords)

\* the observer stands outside the planet and a task was spawned for a chunk
\* near it; a client asked for a coordinate outside the bounds and
\* get_requested_chunk has read the request
C36_Witness ==
    /\ \E i \in DOMAIN players :
          ~chunk_coords_within(ThePlanet, players[i][1], players[i][2], players[i][3])
    /\ tasks_spawned # <<>>
    /\ \E i \in DOMAIN client_requests :
          /\ ~InBounds(PlanetEntity, client_requests[i].chunk_coords)
          /\ client_requests[i] \notin Range(request_events)

----------------------------------------------------------------------------
(* C37 *)

\* the chunk of the planet at a coordinate, in this state and in the next
StoredAt(c) == chunk_from_chunk_coordinates(structures[PlanetEntity], c[1], c[2], c[3])

StoredNextAt(c) ==
    chunk_from_chunk_coordinates(structures'[PlanetEntity], c[1], c[2], c[3])

\* C37: after Structure::new and after any calls of set_chunk with chunks of
\* the structure, the chunk chunk_from_chunk_coordinates gives for (x, y, z)
\* has the structure coordinates (x, y, z), for every coordinate in range; and
\* a call of set_chunk puts the written chunk at its own coordinate and leaves
\* the chunk of every other coordinate as it was.
C37_EveryCoordinateHoldsItsChunk ==
    /\ [](\A c \in ChunkCoordsOf(structures[PlanetEntity]) :
             CoordsOfTask([chunk |-> StoredAt(c)]) = c)
    /\ [][\A c \in ChunkCoordsOf(structures[PlanetEntity]) :
             IF c = CoordsOfTask([chunk |-> call'.chunk[1]])
             THEN StoredNextAt(c) = call'.chunk[1]
             ELSE StoredNextAt(c) = StoredAt(c)]_vars

\* a structure whose three dimensions are not all equal, with a filled chunk
\* written at its last coordinate and a fresh chunk next to it
C37_Witness ==
    /\ structures[PlanetEntity].width # structures[PlanetEntity].height
    /\ structures[PlanetEntity].length > 1
    /\ call.writes = StructWrites
    /\ \E c \in ChunkCoordsOf(structures[PlanetEntity]) :
          /\ c = <<structures[PlanetEntity].width - 1,
                   structures[PlanetEntity].height - 1,
                   structures[PlanetEntity].length - 1>>
          /\ StoredAt(c).populated
    /\ \E c \in ChunkCoordsOf(structures[PlanetEntity]) : ~StoredAt(c).populated

----------------------------------------------------------------------------
(* C38 *)

\* C38: the unsigned arithmetic of a generation task never underflows, for
\* any planet chunks are requested for, a planet 4 chunks high included: the
\* task does not panic, and middle_air_start is blocks_height minus
\* 5 * CHUNK_DIMENSIONS, a number that is not negative.
C38_TaskArithmeticNeverUnderflows ==
    (call.fn = "task" /\ call.done) =>
        /\ ~call.panicked
        /\ call.middle_air_start = <<call.dims[2] - CHUNK_DIMENSIONS * 5>>
        /\ call.dims[2] - CHUNK_DIMENSIONS * 5 >= 0

----------------------------------------------------------------------------
(* C39 *)

\* the height along k_up of the blocks with index n: the seam value of the
\* cached top heights of j_up
SeamAlongK(n) ==
    HeightAlong(call.k_up, call.s_dimensions, call.s[AxisOf(call.k_up)] + n)

\* the first_both_45 that k_top is clamped to at index j of row i
ClampMaxAt(i, j) ==
    IF j = 0 THEN call.s_dimensions ELSE call.tops[i][j].first_both_45

====
